---------------------------- MODULE Spec2Model ----------------------------
(***************************************************************************)
(* The per-instruction kernels of the glow reference interpreter           *)
(* (src/src/glow/Interpreter/InterpreterNodes.cpp) as a state machine.     *)
(*                                                                         *)
(* State: one instruction I, the execution context's weight tensors W and  *)
(* gradient tensors G (value name -> tensor), the driver's position pc,    *)
(* and two observers: hist (the gradients at the entry of each backward    *)
(* run; in the lifecycle and batch normalization families, at the entry of *)
(* each kernel invocation) and oob (a kernel touched an element outside a  *)
(* tensor).                                                                *)
(*                                                                         *)
(* FloatTy is modelled as an exact rational <<num, den>>; rounding is not  *)
(* modelled.  A tensor is [dims, data] with data the row-major buffer.     *)
(***************************************************************************)
EXTENDS Integers, Sequences, FiniteSets, TLC

VARIABLES I, W, G, pc, hist, oob

vars == <<I, W, G, pc, hist, oob>>

---------------------------------------------------------------------------
(* Bounds of the model.                                                    *)

\* how many backward sweeps the driver runs after one forward
MaxBwd == 2

\* how many kernel invocations a training session of the lifecycle runs
MaxSweep == 4

---------------------------------------------------------------------------
(* FloatTy: exact rationals.                                               *)

Abs(x) == IF x < 0 THEN -x ELSE x

RECURSIVE GCD(_, _)
GCD(a, b) == IF b = 0 THEN a ELSE GCD(b, a % b)

Norm(n, d) ==
  LET g == GCD(Abs(n), Abs(d))
      s == IF d < 0 THEN -1 ELSE 1
  IN  <<(s * n) \div g, (s * d) \div g>>

R(n) == <<n, 1>>
Q(n, d) == Norm(n, d)
RAdd(a, b) == Norm(a[1] * b[2] + b[1] * a[2], a[2] * b[2])
RSub(a, b) == Norm(a[1] * b[2] - b[1] * a[2], a[2] * b[2])
RMul(a, b) == Norm(a[1] * b[1], a[2] * b[2])
RDiv(a, b) == Norm(a[1] * b[2], a[2] * b[1])
RLt(a, b) == a[1] * b[2] < b[1] * a[2]
RLe(a, b) == a[1] * b[2] <= b[1] * a[2]
RGe(a, b) == RLe(b, a)

---------------------------------------------------------------------------
(* Generic folds.                                                          *)

RECURSIVE FoldFrom(_, _, _, _, _)
FoldFrom(Op(_, _), acc, s, i, n) ==
  IF i > n THEN acc
  ELSE CHOOSE r \in {FoldFrom(Op, v, s, i + 1, n) : v \in {Op(acc, s[i])}} : TRUE

\* Op applied to the elements of s in order, starting from acc
FoldSeq(Op(_, _), acc, s) ==
  CHOOSE r \in {FoldFrom(Op, acc, t, 1, Len(t)) : t \in {s}} : TRUE

RECURSIVE Prod(_)
Prod(s) == IF s = <<>> THEN 1 ELSE Head(s) * Prod(Tail(s))

RECURSIVE RSumSet(_, _)
RSumSet(f(_), S) ==
  IF S = {} THEN R(0)
  ELSE LET x == CHOOSE y \in S : TRUE IN RAdd(f(x), RSumSet(f, S \ {x}))

---------------------------------------------------------------------------
(* Tensor and handle: row-major storage, raw and structured access.        *)

\* the flat index of coordinate c (0-based) in a tensor of extents d
RECURSIVE PtrPrefix(_, _, _)
PtrPrefix(d, c, k) == IF k = 0 THEN 0 ELSE PtrPrefix(d, c, k - 1) * d[k] + c[k]

RECURSIVE ProdFrom(_, _)
ProdFrom(d, k) == IF k > Len(d) THEN 1 ELSE d[k] * ProdFrom(d, k + 1)

getElementPtr(d, c) == PtrPrefix(d, c, Len(c)) * ProdFrom(d, Len(c) + 1)

\* the coordinate of flat index i in a tensor of extents d
RECURSIVE Coord(_, _)
Coord(d, i) ==
  IF d = <<>> THEN <<>>
  ELSE <<i \div Prod(Tail(d))>> \o Coord(Tail(d), i % Prod(Tail(d)))

isInBounds(d, c) ==
  /\ Len(c) = Len(d)
  /\ \A k \in 1..Len(d) : c[k] >= 0 /\ c[k] < d[k]

size(T) == Prod(T.dims)
raw(T, i) == T.data[i + 1]
at(T, c) == T.data[getElementPtr(T.dims, c) + 1]
setRaw(T, i, v) == [T EXCEPT !.data[i + 1] = v]
setAt(T, c, v) == [T EXCEPT !.data[getElementPtr(T.dims, c) + 1] = v]

\* every coordinate of extents d, in the order nested for-loops visit them
Loops(d) == [k \in 1..Prod(d) |-> Coord(d, k - 1)]

Tensor(d, v) == [dims |-> d, data |-> v]
Fill(d, v) == [dims |-> d, data |-> [k \in 1..Prod(d) |-> v]]
Zero(d) == Fill(d, R(0))
RSeq(s) == [k \in 1..Len(s) |-> R(s[k])]

\* ShapeNHWC
ShapeN(T) == T.dims[1]
ShapeH(T) == T.dims[2]
ShapeW(T) == T.dims[3]
ShapeC(T) == T.dims[4]

\* flattenCdr: (first extent, product of the rest)
flattenCdr(d) == <<Head(d), Prod(Tail(d))>>

---------------------------------------------------------------------------
(* What a read outside a tensor's buffer may return: the handle's at()     *)
(* does not check the coordinate in a build without assertions, so the     *)
(* value is whatever lies at the computed address.                         *)

Junk == {R(0), R(7)}

\* the value read at coordinate c: the element at the flat index of c, which
\* for a coordinate outside the extents is another element of the buffer or,
\* past the end of the buffer, j
rd(T, c, j) ==
  IF isInBounds(T.dims, c) \/ getElementPtr(T.dims, c) < size(T) THEN at(T, c) ELSE j

\* += at coordinate c, likewise; past the end of the buffer the write lands
\* outside the tensor
acc(T, c, v) ==
  IF isInBounds(T.dims, c) \/ getElementPtr(T.dims, c) < size(T)
  THEN setAt(T, c, RAdd(at(T, c), v))
  ELSE T

---------------------------------------------------------------------------
(* Copy                                                                    *)

fwdCopyInst(w) ==
  LET S == w["src"]
      Step(D, i) == setRaw(D, i, raw(S, i))
  IN  [w EXCEPT !["dest"] = FoldSeq(Step, w["dest"], [k \in 1..size(S) |-> k - 1])]

\* the backward storing instead of adding
bwdCopyInst_assign(g) == [g EXCEPT !["src"] = g["dest"]]

bwdCopyInst(g) ==
  LET outG == g["dest"]
      Step(inG, i) == setRaw(inG, i, RAdd(raw(inG, i), raw(outG, i)))
  IN  [g EXCEPT !["src"] = FoldSeq(Step, g["src"], [k \in 1..size(outG) |-> k - 1])]

---------------------------------------------------------------------------
(* Convolution                                                             *)

\* "Ignore index access below zero (this is due to padding)": the test of
\* the convolution kernels, which compares with the OUTPUT extents
convSkip(ox, oy, odim) ==
  ox < 0 \/ oy < 0 \/ ox >= odim[2] \/ oy >= odim[3]

\* the sum of one output element, filter loops fy, fx, fd
convSum(inW, filterW, odim, n, d, x, y, filterSize, j) ==
  LET Step(sum, f) ==
        LET fy == f[1]
            fx == f[2]
            fd == f[3]
            ox == x + fx
            oy == y + fy
        IN  IF convSkip(ox, oy, odim) THEN sum
            ELSE RAdd(sum, RMul(at(filterW, <<d, fx, fy, fd>>),
                                rd(inW, <<n, ox, oy, fd>>, j)))
  IN  FoldSeq(Step, R(0), Loops(<<filterSize, filterSize, ShapeC(inW)>>))

fwdConvolutionInst(w, inst, j) ==
  LET inW == w["src"]
      filterW == w["filter"]
      biasW == w["bias"]
      odim == w["dest"].dims
      Step(outW, o) ==
        LET n == o[1]
            d == o[2]
            ay == o[3]
            ax == o[4]
            y == -inst.pad + ay * inst.stride
            x == -inst.pad + ax * inst.stride
            sum == convSum(inW, filterW, odim, n, d, x, y, inst.kernel, j)
        IN  setAt(outW, <<n, ax, ay, d>>, RAdd(sum, at(biasW, <<d>>)))
  IN  [w EXCEPT !["dest"] =
         FoldSeq(Step, w["dest"], Loops(<<ShapeN(inW), odim[4], odim[3], odim[2]>>))]

\* the filter loops of one output element of the backward kernel
bwdConvWindow(g, inW, filterW, odim, n, d, x, y, chainGrad, filterSize, j) ==
  LET Step(gr, f) ==
        LET fy == f[1]
            fx == f[2]
            fd == f[3]
            ox == x + fx
            oy == y + fy
        IN  IF convSkip(ox, oy, odim) THEN gr
            ELSE [gr EXCEPT
                    !["filter"] = acc(@, <<d, fx, fy, fd>>,
                                      RMul(rd(inW, <<0, ox, oy, fd>>, j), chainGrad)),
                    !["src"] = acc(@, <<n, ox, oy, fd>>,
                                   RMul(at(filterW, <<d, fx, fy, fd>>), chainGrad))]
  IN  FoldSeq(Step, g, Loops(<<filterSize, filterSize, ShapeC(inW)>>))

bwdConvolutionInst(g, w, inst, j) ==
  LET inW == w["src"]
      filterW == w["filter"]
      outG == g["dest"]
      odim == w["dest"].dims
      Step(gr, o) ==
        LET n == o[1]
            d == o[2]
            ay == o[3]
            ax == o[4]
            y == -inst.pad + ay * inst.stride
            x == -inst.pad + ax * inst.stride
            chainGrad == at(outG, <<n, ax, ay, d>>)
            gw == bwdConvWindow(gr, inW, filterW, odim, n, d, x, y, chainGrad,
                                inst.kernel, j)
        IN  [gw EXCEPT !["bias"] = acc(@, <<d>>, chainGrad)]
  IN  FoldSeq(Step, g, Loops(<<odim[1], odim[4], odim[3], odim[2]>>))

\* some element the convolution kernels touch lies outside the input
convOutOfBounds(w, inst) ==
  LET idim == w["src"].dims
      odim == w["dest"].dims
  IN  \E ay \in 0..(odim[3] - 1), ax \in 0..(odim[2] - 1),
         fy \in 0..(inst.kernel - 1), fx \in 0..(inst.kernel - 1) :
        LET ox == -inst.pad + ax * inst.stride + fx
            oy == -inst.pad + ay * inst.stride + fy
        IN  ~convSkip(ox, oy, odim) /\ ~isInBounds(idim, <<0, ox, oy, 0>>)

---------------------------------------------------------------------------
(* Pooling                                                                 *)

\* "Ignore index access below zero (this is due to padding)": the test of
\* the pooling kernels, which compares with the input extents
poolSkip(ox, oy, idim) ==
  ox < 0 \/ oy < 0 \/ ox >= idim[2] \/ oy >= idim[3]

\* "if (first || (val >= max))", with max >= val compared the other way round
isNewMax_strict(first, val, max) == first \/ RLt(max, val)

\* "if (first || (val >= max))"
isNewMax(first, val, max) == first \/ RGe(val, max)

\* the scan of one window: [first, max, maxX, maxY] after the filter loops
poolMaxWindow(inW, n, z, x, y, filterSize) ==
  LET Step(m, f) ==
        LET fy == f[1]
            fx == f[2]
            ox == x + fx
            oy == y + fy
        IN  IF poolSkip(ox, oy, inW.dims) THEN m
            ELSE LET val == at(inW, <<n, ox, oy, z>>)
                 IN  IF isNewMax(m.first, val, m.max)
                     THEN [first |-> FALSE, max |-> val, maxX |-> ox, maxY |-> oy]
                     ELSE m
  IN  FoldSeq(Step, [first |-> TRUE, max |-> R(0), maxX |-> x, maxY |-> y],
              Loops(<<filterSize, filterSize>>))

\* the assertion taken out, as if the window always held a value
maxIsUninitialized_never(first) == FALSE

\* "assert(!first && "Max value is uninitialized")": the assertion fails
maxIsUninitialized(first) == first

\* the weights after the kernel, and whether the assertion
\* "Max value is uninitialized" stopped it (nothing later is written)
fwdPoolMax_impl(w, inst) ==
  LET inW == w["src"]
      odim == w["dest"].dims
      Step(st, o) ==
        LET n == o[1]
            z == o[2]
            ay == o[3]
            ax == o[4]
            y == -inst.pad + ay * inst.stride
            x == -inst.pad + ax * inst.stride
            m == poolMaxWindow(inW, n, z, x, y, inst.kernel)
        IN  IF st.failed THEN st
            ELSE IF maxIsUninitialized(m.first) THEN [st EXCEPT !.failed = TRUE]
            ELSE [st EXCEPT
                    !.w["srcXY"] = setAt(setAt(@, <<n, ax, ay, z, 0>>, m.maxX),
                                         <<n, ax, ay, z, 1>>, m.maxY),
                    !.w["dest"] = setAt(@, <<n, ax, ay, z>>, m.max)]
  IN  FoldSeq(Step, [w |-> w, failed |-> FALSE],
              Loops(<<odim[1], ShapeC(inW), odim[3], odim[2]>>))

\* filterArea with the square forgotten
filterArea_linear(inst) == R(inst.kernel)

\* "FloatTy filterArea = filterSize * filterSize"
filterArea(inst) == R(inst.kernel * inst.kernel)

\* the sum of one window over the positions inside the input
poolAvgSum(inW, n, z, x, y, filterSize) ==
  LET Step(sum, f) ==
        LET fy == f[1]
            fx == f[2]
            ox == x + fx
            oy == y + fy
        IN  IF poolSkip(ox, oy, inW.dims) THEN sum
            ELSE RAdd(sum, at(inW, <<n, ox, oy, z>>))
  IN  FoldSeq(Step, R(0), Loops(<<filterSize, filterSize>>))

fwdPoolAvg_impl(w, inst) ==
  LET inW == w["src"]
      odim == w["dest"].dims
      Step(outW, o) ==
        LET n == o[1]
            z == o[2]
            ay == o[3]
            ax == o[4]
            y == -inst.pad + ay * inst.stride
            x == -inst.pad + ax * inst.stride
        IN  setAt(outW, <<n, ax, ay, z>>,
                  RDiv(poolAvgSum(inW, n, z, x, y, inst.kernel), filterArea(inst)))
  IN  [w EXCEPT !["dest"] =
         FoldSeq(Step, w["dest"], Loops(<<odim[1], ShapeC(inW), odim[3], odim[2]>>))]

\* the saved coordinate read with its two components exchanged
savedXY_swapped(SXY, n, ax, ay, z) ==
  <<at(SXY, <<n, ax, ay, z, 1>>), at(SXY, <<n, ax, ay, z, 0>>)>>

\* <<maxX, maxY>>, the coordinate the forward saved for an output element
savedXY(SXY, n, ax, ay, z) ==
  <<at(SXY, <<n, ax, ay, z, 0>>), at(SXY, <<n, ax, ay, z, 1>>)>>

bwdPoolMax_impl(g, w) ==
  LET outG == g["dest"]
      SXY == w["srcXY"]
      odim == w["dest"].dims
      Step(inG, o) ==
        LET n == o[1]
            z == o[2]
            ay == o[3]
            ax == o[4]
            chainGrad == at(outG, <<n, ax, ay, z>>)
            maxX == savedXY(SXY, n, ax, ay, z)[1]
            maxY == savedXY(SXY, n, ax, ay, z)[2]
        IN  acc(inG, <<n, maxX, maxY, z>>, chainGrad)
  IN  [g EXCEPT !["src"] =
         FoldSeq(Step, g["src"], Loops(<<odim[1], odim[4], odim[3], odim[2]>>))]

\* the filter loops of one output element of the backward kernel
bwdPoolAvgWindow(inG, idim, n, z, x, y, dy, filterSize) ==
  LET Step(gr, f) ==
        LET fy == f[1]
            fx == f[2]
            ox == x + fx
            oy == y + fy
        IN  IF poolSkip(ox, oy, idim) THEN gr
            ELSE acc(gr, <<n, ox, oy, z>>, dy)
  IN  FoldSeq(Step, inG, Loops(<<filterSize, filterSize>>))

bwdPoolAvg_impl(g, w, inst) ==
  LET outG == g["dest"]
      idim == w["src"].dims
      odim == w["dest"].dims
      Step(inG, o) ==
        LET n == o[1]
            z == o[2]
            ay == o[3]
            ax == o[4]
            y == -inst.pad + ay * inst.stride
            x == -inst.pad + ax * inst.stride
            dy == RDiv(at(outG, <<n, ax, ay, z>>), filterArea(inst))
        IN  bwdPoolAvgWindow(inG, idim, n, z, x, y, dy, inst.kernel)
  IN  [g EXCEPT !["src"] =
         FoldSeq(Step, g["src"], Loops(<<odim[1], odim[4], odim[3], odim[2]>>))]

---------------------------------------------------------------------------
(* Fully Connected                                                         *)

\* the sum of one output element with the bias left out
fcSum_noBias(inW, filterW, biasW, base, i, inputSize) ==
  LET Step(sum, j) == RAdd(sum, RMul(raw(inW, base + j), at(filterW, <<i, j>>)))
  IN  FoldSeq(Step, R(0), [k \in 1..inputSize |-> k - 1])

\* the sum of one output element: the loop over j, then "sum += biasW.at({i})"
fcSum(inW, filterW, biasW, base, i, inputSize) ==
  LET Step(sum, j) == RAdd(sum, RMul(raw(inW, base + j), at(filterW, <<i, j>>)))
  IN  RAdd(FoldSeq(Step, R(0), [k \in 1..inputSize |-> k - 1]), at(biasW, <<i>>))

fwdFullyConnectedInst(w) ==
  LET inW == w["src"]
      odim == flattenCdr(w["dest"].dims)
      idim == flattenCdr(inW.dims)
      inputSize == idim[2]
      Step(outW, o) ==
        LET n == o[1]
            i == o[2]
            base == getElementPtr(inW.dims, <<n>>)
        IN  setAt(outW, <<n, i>>, fcSum(inW, w["filter"], w["bias"], base, i, inputSize))
  IN  [w EXCEPT !["dest"] = FoldSeq(Step, w["dest"], Loops(<<odim[1], odim[2]>>))]

\* the loop over j of one output element of the backward kernel
bwdFcRow(g, inW, filterW, base, i, chainGrad, inSize) ==
  LET Step(gr, j) ==
        [gr EXCEPT
           !["src"] = setRaw(@, base + j,
                        RAdd(raw(@, base + j), RMul(at(filterW, <<i, j>>), chainGrad))),
           !["filter"] = acc(@, <<i, j>>, RMul(raw(inW, base + j), chainGrad))]
  IN  FoldSeq(Step, g, [k \in 1..inSize |-> k - 1])

bwdFullyConnectedInst(g, w) ==
  LET inW == w["src"]
      filterW == w["filter"]
      outG == g["dest"]
      odim == flattenCdr(w["dest"].dims)
      idim == flattenCdr(inW.dims)
      inSize == idim[2]
      Step(gr, o) ==
        LET n == o[1]
            i == o[2]
            base == getElementPtr(inW.dims, <<n>>)
            chainGrad == at(outG, <<n, i>>)
            g1 == bwdFcRow(gr, inW, filterW, base, i, chainGrad, inSize)
        IN  [g1 EXCEPT !["bias"] = acc(@, <<i>>, chainGrad)]
  IN  FoldSeq(Step, g, Loops(<<odim[1], odim[2]>>))

---------------------------------------------------------------------------
(* Activation functions                                                    *)

fwdReluInst(w) ==
  LET inW == w["src"]
      Step(outW, i) ==
        LET val == raw(inW, i)
        IN  setRaw(outW, i, IF RLt(val, R(0)) THEN R(0) ELSE val)
  IN  [w EXCEPT !["dest"] = FoldSeq(Step, w["dest"], [k \in 1..size(inW) |-> k - 1])]

\* the gate with the boundary let through: "val < 0 ? 0 : outG.raw(i)"
reluGate_boundary(val, dy) == IF RLt(val, R(0)) THEN R(0) ELSE dy

\* "(val <= 0 ? 0 : outG.raw(i))"
reluGate(val, dy) == IF RLe(val, R(0)) THEN R(0) ELSE dy

bwdReluInst(g, w) ==
  LET outW == w["dest"]
      outG == g["dest"]
      Step(inG, i) ==
        LET val == raw(outW, i)
        IN  setRaw(inG, i, RAdd(raw(inG, i), reluGate(val, raw(outG, i))))
  IN  [g EXCEPT !["src"] = FoldSeq(Step, g["src"], [k \in 1..size(outW) |-> k - 1])]

---------------------------------------------------------------------------
(* Loss functions.  The SoftMax input is held in units of ln 2, so that    *)
(* std::exp of a difference of two elements is an exact power of two.      *)

RECURSIVE Pow2(_)
Pow2(k) == IF k = 0 THEN 1 ELSE 2 * Pow2(k - 1)

\* std::exp(v * ln 2) for an integer v <= 0
Exp(v) == Q(1, Pow2(-v[1]))

RMax(a, b) == IF RLt(a, b) THEN b ELSE a

\* one row of the forward: <<E row as a sequence>>
softMaxRow(inW, n, m) ==
  LET cols == [k \in 1..m |-> k - 1]
      FindMax(mx, i) == RMax(mx, at(inW, <<n, i>>))
      max == FoldSeq(FindMax, at(inW, <<n, 0>>), cols)
      e(i) == Exp(RSub(at(inW, <<n, i>>), max))
      AddE(sum, i) == RAdd(sum, e(i))
      sum == FoldSeq(AddE, R(0), cols)
  IN  [k \in 1..m |-> RDiv(e(k - 1), sum)]

fwdSoftMaxInst(w) ==
  LET inW == w["src"]
      idim == inW.dims
      Step(ww, o) ==
        LET n == o[1]
            i == o[2]
            v == softMaxRow(inW, n, idim[2])[i + 1]
        IN  [ww EXCEPT !["E"] = setAt(@, <<n, i>>, v),
                       !["dest"] = setAt(@, <<n, i>>, v)]
  IN  FoldSeq(Step, w, Loops(<<idim[1], idim[2]>>))

\* delta compared with the column after the selected one
softMaxDelta_shifted(sel, i) == IF sel + 1 = i THEN R(1) ELSE R(0)

\* "FloatTy delta = (selectedH.at({n, 0}) == i)"
softMaxDelta(sel, i) == IF sel = i THEN R(1) ELSE R(0)

bwdSoftMaxInst(g, w) ==
  LET idim == g["src"].dims
      EH == w["E"]
      selectedH == w["selected"]
      Step(inG, o) ==
        LET n == o[1]
            i == o[2]
            delta == softMaxDelta(at(selectedH, <<n, 0>>), i)
            sigma == RSub(at(EH, <<n, i>>), delta)
        IN  setAt(inG, <<n, i>>, RAdd(at(inG, <<n, i>>), sigma))
  IN  [g EXCEPT !["src"] = FoldSeq(Step, g["src"], Loops(<<idim[1], idim[2]>>))]

fwdRegressionInst(w) ==
  LET inW == w["src"]
      Step(outW, i) == setRaw(outW, i, raw(inW, i))
  IN  [w EXCEPT !["dest"] = FoldSeq(Step, w["dest"], [k \in 1..size(inW) |-> k - 1])]

bwdRegressionInst(g, w) ==
  LET inW == w["src"]
      e == w["expected"]
      idim == inW.dims
      Step(inG, o) ==
        LET dy == RSub(at(inW, o), at(e, o))
        IN  setAt(inG, o, RAdd(at(inG, o), dy))
  IN  [g EXCEPT !["src"] = FoldSeq(Step, g["src"], Loops(<<idim[1], idim[2]>>))]

---------------------------------------------------------------------------
(* Tensor shape                                                            *)

\* Handle::transpose: dest has extents dims[shuffle[i]], and the element of
\* dest at coordinate c is the element of T at the coordinate s with
\* s[shuffle[i]] = c[i]
transpose(T, shuffle) ==
  LET r == Len(T.dims)
      newSizes == [i \in 1..r |-> T.dims[shuffle[i] + 1]]
      SrcCoor(c) == [j \in 1..r |-> c[CHOOSE i \in 1..r : shuffle[i] + 1 = j]]
  IN  Tensor(newSizes, [k \in 1..Prod(newSizes) |-> at(T, SrcCoor(Coord(newSizes, k - 1)))])

fwdTransposeInst(w, shuffle, from, to) ==
  [w EXCEPT ![to] = transpose(w[from], shuffle)]

\* the reverse shuffle left as the copy of the shuffle
reverseShuffle_copy(shuffle) == shuffle

\* "reverseShuffle[shuffle[i]] = i", starting from a copy of the shuffle
reverseShuffle(shuffle) ==
  LET Step(rev, i) == [rev EXCEPT ![shuffle[i + 1] + 1] = i]
  IN  FoldSeq(Step, shuffle, [k \in 1..Len(shuffle) |-> k - 1])

bwdTransposeInst(g, shuffle) ==
  [g EXCEPT !["src"] = transpose(g["dest"], reverseShuffle(shuffle))]

fwdReshapeInst(w) ==
  LET inW == w["src"]
      Step(outW, i) == setRaw(outW, i, raw(inW, i))
  IN  [w EXCEPT !["dest"] = FoldSeq(Step, w["dest"], [k \in 1..size(inW) |-> k - 1])]

bwdReshapeInst(g, w) ==
  LET outG == g["dest"]
      Step(inG, i) == setRaw(inG, i, RAdd(raw(inG, i), raw(outG, i)))
  IN  [g EXCEPT !["src"] = FoldSeq(Step, g["src"], [k \in 1..size(w["dest"]) |-> k - 1])]

---------------------------------------------------------------------------
(* Arithmetic.  inst.lhs and inst.rhs name the operand values; handles     *)
(* over one value share its storage.                                       *)

fwdArithmeticInst(w, inst) ==
  LET LHSW == w[inst.lhs]
      RHSW == w[inst.rhs]
      Step(outW, i) ==
        setRaw(outW, i, IF inst.kind = "Add"
                        THEN RAdd(raw(LHSW, i), raw(RHSW, i))
                        ELSE RMul(raw(LHSW, i), raw(RHSW, i)))
  IN  [w EXCEPT !["dest"] = FoldSeq(Step, w["dest"], [k \in 1..size(w["dest"]) |-> k - 1])]

\* the operand gradient update written as an accumulation
arithStore_accumulate(T, i, v) == setRaw(T, i, RAdd(raw(T, i), v))

\* "LHSG.raw(i) = ...": the operand gradient is assigned
arithStore(T, i, v) == setRaw(T, i, v)

bwdArithmeticInst(g, w, inst) ==
  LET LHSW == w[inst.lhs]
      RHSW == w[inst.rhs]
      outG == g["dest"]
      Step(gr, i) ==
        LET toL == IF inst.kind = "Add" THEN raw(outG, i)
                   ELSE RMul(raw(RHSW, i), raw(outG, i))
            toR == IF inst.kind = "Add" THEN raw(outG, i)
                   ELSE RMul(raw(LHSW, i), raw(outG, i))
            g1 == [gr EXCEPT ![inst.lhs] = arithStore(@, i, toL)]
        IN  [g1 EXCEPT ![inst.rhs] = arithStore(@, i, toR)]
  IN  FoldSeq(Step, g, [k \in 1..size(outG) |-> k - 1])

---------------------------------------------------------------------------
(* Inputs.                                                                 *)

\* the tensor of extents d whose k-th element (row-major, from 0) is a + b*k
Ramp(d, a, b) == Tensor(d, [k \in 1..Prod(d) |-> R(a + b * (k - 1))])

\* the extent to which the caller sizes a spatial output
OutExtent(h, kernel, stride, pad) == ((h + 2 * pad - kernel) \div stride) + 1

\* gradient buffers before the first backward run: fresh, or left by earlier sweeps
GradFills == {R(0), R(99)}

\* geometries: input N, H, W, C, output channels D, kernel, stride, pad
ConvGeoms ==
  { [n |-> 1, h |-> 3, w |-> 3, c |-> 1, d |-> 1, kernel |-> 2, stride |-> 1, pad |-> 0],
    [n |-> 2, h |-> 2, w |-> 2, c |-> 1, d |-> 1, kernel |-> 3, stride |-> 1, pad |-> 1],
    [n |-> 1, h |-> 2, w |-> 2, c |-> 2, d |-> 2, kernel |-> 1, stride |-> 1, pad |-> 0],
    [n |-> 2, h |-> 2, w |-> 3, c |-> 1, d |-> 1, kernel |-> 1, stride |-> 2, pad |-> 0],
    [n |-> 1, h |-> 2, w |-> 2, c |-> 1, d |-> 2, kernel |-> 2, stride |-> 1, pad |-> 1],
    [n |-> 2, h |-> 1, w |-> 2, c |-> 1, d |-> 1, kernel |-> 1, stride |-> 1, pad |-> 1] }

OutDims(n, g, ch) ==
  <<n, OutExtent(g.h, g.kernel, g.stride, g.pad),
       OutExtent(g.w, g.kernel, g.stride, g.pad), ch>>

InitConv ==
  \E g \in ConvGeoms, gf \in GradFills :
    LET idim == <<g.n, g.h, g.w, g.c>>
        odim == OutDims(g.n, g, g.d)
        fdim == <<g.d, g.kernel, g.kernel, g.c>>
    IN  /\ I = [op |-> "conv", kernel |-> g.kernel, stride |-> g.stride, pad |-> g.pad]
        /\ \E src \in {Fill(idim, R(1)), Ramp(idim, -1, 1)},
              filter \in {Fill(fdim, R(1)), Ramp(fdim, 1, 1)},
              bias \in {Zero(<<g.d>>), Ramp(<<g.d>>, 1, 2)} :
             W = [src |-> src, dest |-> Zero(odim), filter |-> filter, bias |-> bias]
        /\ \E outG \in {Fill(odim, R(1)), Ramp(odim, -1, 2)} :
             G = [src |-> Fill(idim, gf), dest |-> outG,
                  filter |-> Fill(fdim, gf), bias |-> Fill(<<g.d>>, gf)]
        /\ pc = "ready"
        /\ hist = <<>>
        /\ oob = FALSE

---------------------------------------------------------------------------
(* The driver: one forward, then backward sweeps.                          *)

CanBwd == pc \in {"fwd", "bwd"} /\ Len(hist) < MaxBwd

FwdConvolution ==
  /\ I.op = "conv" /\ pc = "ready"
  /\ IF convOutOfBounds(W, I)
     THEN /\ oob' = TRUE
          /\ \/ \E j \in Junk : W' = fwdConvolutionInst(W, I, j) /\ pc' = "fwd"
             \/ W' = W /\ pc' = "abort"
     ELSE /\ W' = fwdConvolutionInst(W, I, R(0))
          /\ pc' = "fwd"
          /\ oob' = oob
  /\ UNCHANGED <<I, G, hist>>

BwdConvolution ==
  /\ I.op = "conv" /\ CanBwd
  /\ hist' = Append(hist, G)
  /\ IF convOutOfBounds(W, I)
     THEN /\ oob' = TRUE
          /\ \/ \E j \in Junk : G' = bwdConvolutionInst(G, W, I, j) /\ pc' = "bwd"
             \/ G' = G /\ pc' = "abort"
     ELSE /\ G' = bwdConvolutionInst(G, W, I, R(0))
          /\ pc' = "bwd"
          /\ oob' = oob
  /\ UNCHANGED <<I, W>>

NextConv == FwdConvolution \/ BwdConvolution

SpecConv == InitConv /\ [][NextConv]_vars

---------------------------------------------------------------------------
(* Pooling: inputs and driver.                                             *)

\* the tensor of extents d whose elements repeat the list l
Cyc(d, l) == Tensor(d, [k \in 1..Prod(d) |-> R(l[((k - 1) % Len(l)) + 1])])

PoolGeoms ==
  { [n |-> 1, h |-> 2, w |-> 2, c |-> 1, kernel |-> 2, stride |-> 1, pad |-> 0, grow |-> 0],
    [n |-> 1, h |-> 2, w |-> 2, c |-> 1, kernel |-> 2, stride |-> 1, pad |-> 1, grow |-> 0],
    [n |-> 1, h |-> 3, w |-> 3, c |-> 1, kernel |-> 2, stride |-> 1, pad |-> 0, grow |-> 0],
    [n |-> 1, h |-> 2, w |-> 3, c |-> 1, kernel |-> 2, stride |-> 2, pad |-> 1, grow |-> 0],
    [n |-> 2, h |-> 2, w |-> 1, c |-> 2, kernel |-> 1, stride |-> 1, pad |-> 0, grow |-> 0],
    [n |-> 1, h |-> 2, w |-> 2, c |-> 1, kernel |-> 1, stride |-> 1, pad |-> 1, grow |-> 0],
    [n |-> 1, h |-> 2, w |-> 2, c |-> 1, kernel |-> 1, stride |-> 1, pad |-> 0, grow |-> 1] }

\* the extents of dest: the output formula's, or grow more when the caller
\* sizes dest larger
PoolOutDims(g) ==
  <<g.n, OutExtent(g.h, g.kernel, g.stride, g.pad) + g.grow,
         OutExtent(g.w, g.kernel, g.stride, g.pad) + g.grow, g.c>>

InitPool ==
  \E g \in PoolGeoms, kind \in {"Max", "Avg"}, gf \in GradFills :
    LET idim == <<g.n, g.h, g.w, g.c>>
        odim == PoolOutDims(g)
    IN  /\ I = [op |-> "pool", kind |-> kind,
                kernel |-> g.kernel, stride |-> g.stride, pad |-> g.pad]
        /\ \E src \in {Fill(idim, R(1)), Fill(idim, R(-2)),
                       Cyc(idim, <<1, 3, 2, 4, 4, -1, 0>>),
                       Cyc(idim, <<-1, -3, -3, -1, -2>>)} :
             W = [src |-> src, dest |-> Zero(odim),
                  srcXY |-> Fill(odim \o <<2>>, 0)]
        /\ \E outG \in {Fill(odim, R(1)), Ramp(odim, -1, 2)} :
             G = [src |-> Fill(idim, gf), dest |-> outG]
        /\ pc = "ready"
        /\ hist = <<>>
        /\ oob = FALSE

FwdPoolMax ==
  /\ I.op = "pool" /\ I.kind = "Max" /\ pc = "ready"
  /\ LET r == fwdPoolMax_impl(W, I)
     IN  /\ W' = r.w
         /\ pc' = IF r.failed THEN "abort" ELSE "fwd"
  /\ UNCHANGED <<I, G, hist, oob>>

FwdPoolAvg ==
  /\ I.op = "pool" /\ I.kind # "Max" /\ pc = "ready"
  /\ W' = fwdPoolAvg_impl(W, I)
  /\ pc' = "fwd"
  /\ UNCHANGED <<I, G, hist, oob>>

BwdPoolMax ==
  /\ I.op = "pool" /\ I.kind = "Max" /\ CanBwd
  /\ hist' = Append(hist, G)
  /\ G' = bwdPoolMax_impl(G, W)
  /\ pc' = "bwd"
  /\ UNCHANGED <<I, W, oob>>

BwdPoolAvg ==
  /\ I.op = "pool" /\ I.kind # "Max" /\ CanBwd
  /\ hist' = Append(hist, G)
  /\ G' = bwdPoolAvg_impl(G, W, I)
  /\ pc' = "bwd"
  /\ UNCHANGED <<I, W, oob>>

NextPool == FwdPoolMax \/ FwdPoolAvg \/ BwdPoolMax \/ BwdPoolAvg

SpecPool == InitPool /\ [][NextPool]_vars

---------------------------------------------------------------------------
(* Fully Connected: inputs and driver.                                     *)

\* input extents and the number of outputs
FcShapes ==
  { [idim |-> <<2, 3>>, out |-> 2],
    [idim |-> <<2, 1, 2>>, out |-> 1],
    [idim |-> <<1, 2, 2, 1>>, out |-> 3] }

InitFC ==
  \E sh \in FcShapes, gf \in GradFills :
    LET idim == sh.idim
        fdim == <<sh.out, flattenCdr(idim)[2]>>
        odim == <<idim[1], sh.out>>
    IN  /\ I = [op |-> "fc"]
        /\ \E src \in {Ramp(idim, 1, 1), Cyc(idim, <<-1, 2, 0>>)},
              filter \in {Cyc(fdim, <<1, 0, 0, 0>>), Ramp(fdim, -1, 1)},
              bias \in {Ramp(<<sh.out>>, 10, 10), Zero(<<sh.out>>)} :
             W = [src |-> src, dest |-> Zero(odim), filter |-> filter, bias |-> bias]
        /\ \E outG \in {Fill(odim, R(1)), Ramp(odim, -1, 2)} :
             G = [src |-> Fill(idim, gf), dest |-> outG,
                  filter |-> Fill(fdim, gf), bias |-> Fill(<<sh.out>>, gf)]
        /\ pc = "ready"
        /\ hist = <<>>
        /\ oob = FALSE

FwdFullyConnected ==
  /\ I.op = "fc" /\ pc = "ready"
  /\ W' = fwdFullyConnectedInst(W)
  /\ pc' = "fwd"
  /\ UNCHANGED <<I, G, hist, oob>>

BwdFullyConnected ==
  /\ I.op = "fc" /\ CanBwd
  /\ hist' = Append(hist, G)
  /\ G' = bwdFullyConnectedInst(G, W)
  /\ pc' = "bwd"
  /\ UNCHANGED <<I, W, oob>>

NextFC == FwdFullyConnected \/ BwdFullyConnected

SpecFC == InitFC /\ [][NextFC]_vars

---------------------------------------------------------------------------
(* ReLU: inputs and driver.                                                *)

\* the element values of the pointwise inputs
ReluVals == {R(-1), R(0), R(2)}

InitRelu ==
  \E d \in {<<3>>, <<1, 2>>}, gf \in GradFills :
    /\ I = [op |-> "relu"]
    /\ \E data \in [1..Prod(d) -> ReluVals] :
         W = [src |-> Tensor(d, data), dest |-> Zero(d)]
    /\ \E outG \in {Ramp(d, 5, 2), Ramp(d, -3, 2)} :
         G = [src |-> Fill(d, gf), dest |-> outG]
    /\ pc = "ready"
    /\ hist = <<>>
    /\ oob = FALSE

FwdRelu ==
  /\ I.op = "relu" /\ pc = "ready"
  /\ W' = fwdReluInst(W)
  /\ pc' = "fwd"
  /\ UNCHANGED <<I, G, hist, oob>>

BwdRelu ==
  /\ I.op = "relu" /\ CanBwd
  /\ hist' = Append(hist, G)
  /\ G' = bwdReluInst(G, W)
  /\ pc' = "bwd"
  /\ UNCHANGED <<I, W, oob>>

NextRelu == FwdRelu \/ BwdRelu

SpecRelu == InitRelu /\ [][NextRelu]_vars

---------------------------------------------------------------------------
(* SoftMax and Regression: inputs and driver.                              *)

\* rows of the SoftMax input, in units of ln 2
SoftMaxRows == {<<1, 1, 1>>, <<0, -1, -1>>, <<-2, 0, -2>>, <<3, 2, 1>>, <<0, 0, -1>>}

InitSoftMax ==
  \E r1 \in SoftMaxRows, r2 \in SoftMaxRows, gf \in GradFills :
    LET d == <<2, 3>>
    IN  /\ I = [op |-> "softmax"]
        /\ \E s1 \in 0..3, s2 \in {0, 2} :
             W = [src |-> Tensor(d, RSeq(r1 \o r2)), dest |-> Zero(d), E |-> Zero(d),
                  selected |-> Tensor(<<2, 1>>, <<s1, s2>>)]
        /\ G = [src |-> Fill(d, gf), dest |-> Zero(d)]
        /\ pc = "ready"
        /\ hist = <<>>
        /\ oob = FALSE

FwdSoftMax ==
  /\ I.op = "softmax" /\ pc = "ready"
  /\ W' = fwdSoftMaxInst(W)
  /\ pc' = "fwd"
  /\ UNCHANGED <<I, G, hist, oob>>

BwdSoftMax ==
  /\ I.op = "softmax" /\ CanBwd
  /\ hist' = Append(hist, G)
  /\ G' = bwdSoftMaxInst(G, W)
  /\ pc' = "bwd"
  /\ UNCHANGED <<I, W, oob>>

NextSoftMax == FwdSoftMax \/ BwdSoftMax

SpecSoftMax == InitSoftMax /\ [][NextSoftMax]_vars

InitRegression ==
  \E gf \in GradFills :
    LET d == <<2, 2>>
    IN  /\ I = [op |-> "regression"]
        /\ \E src \in {Ramp(d, 1, 1), Cyc(d, <<-1, 2, 0>>)},
              e \in {Ramp(d, 0, 2), Fill(d, R(1))} :
             W = [src |-> src, dest |-> Zero(d), expected |-> e]
        /\ G = [src |-> Fill(d, gf), dest |-> Zero(d)]
        /\ pc = "ready"
        /\ hist = <<>>
        /\ oob = FALSE

FwdRegression ==
  /\ I.op = "regression" /\ pc = "ready"
  /\ W' = fwdRegressionInst(W)
  /\ pc' = "fwd"
  /\ UNCHANGED <<I, G, hist, oob>>

BwdRegression ==
  /\ I.op = "regression" /\ CanBwd
  /\ hist' = Append(hist, G)
  /\ G' = bwdRegressionInst(G, W)
  /\ pc' = "bwd"
  /\ UNCHANGED <<I, W, oob>>

---------------------------------------------------------------------------
(* Copy and Reshape: inputs and driver.                                    *)

InitCopy ==
  \E op \in {"copy", "reshape"}, gf \in GradFills :
    LET idim == <<2, 2>>
        odim == IF op = "copy" THEN idim ELSE <<4>>
    IN  /\ I = [op |-> op]
        /\ \E src \in {Ramp(idim, 1, 1), Cyc(idim, <<-1, 2, 0>>)} :
             W = [src |-> src, dest |-> Zero(odim)]
        /\ \E outG \in {Fill(odim, R(1)), Ramp(odim, -1, 2)} :
             G = [src |-> Fill(idim, gf), dest |-> outG]
        /\ pc = "ready"
        /\ hist = <<>>
        /\ oob = FALSE

FwdCopy ==
  /\ I.op = "copy" /\ pc = "ready"
  /\ W' = fwdCopyInst(W)
  /\ pc' = "fwd"
  /\ UNCHANGED <<I, G, hist, oob>>

BwdCopy ==
  /\ I.op = "copy" /\ CanBwd
  /\ hist' = Append(hist, G)
  /\ G' = bwdCopyInst(G)
  /\ pc' = "bwd"
  /\ UNCHANGED <<I, W, oob>>

FwdReshape ==
  /\ I.op = "reshape" /\ pc = "ready"
  /\ W' = fwdReshapeInst(W)
  /\ pc' = "fwd"
  /\ UNCHANGED <<I, G, hist, oob>>

BwdReshape ==
  /\ I.op = "reshape" /\ CanBwd
  /\ hist' = Append(hist, G)
  /\ G' = bwdReshapeInst(G, W)
  /\ pc' = "bwd"
  /\ UNCHANGED <<I, W, oob>>

---------------------------------------------------------------------------
(* Arithmetic: inputs and driver.                                          *)

InitArith ==
  \E kind \in {"Add", "Mul"}, rhs \in {"a", "b"}, gfa \in GradFills, gfb \in GradFills :
    \E d \in {<<1>>, <<2>>} :
        /\ I = [op |-> "arith", kind |-> kind, lhs |-> "a", rhs |-> rhs]
        /\ \E a \in {Ramp(d, 2, 3), Ramp(d, -1, 1)}, b \in {Ramp(d, 3, -4), Fill(d, R(0))} :
             W = [a |-> a, b |-> b, dest |-> Zero(d)]
        /\ \E outG \in {Fill(d, R(1)), Ramp(d, -2, 5)} :
             G = [a |-> Fill(d, gfa), b |-> Fill(d, gfb), dest |-> outG]
        /\ pc = "ready"
        /\ hist = <<>>
        /\ oob = FALSE

FwdArithmetic ==
  /\ I.op = "arith" /\ pc = "ready"
  /\ W' = fwdArithmeticInst(W, I)
  /\ pc' = "fwd"
  /\ UNCHANGED <<I, G, hist, oob>>

BwdArithmetic ==
  /\ I.op = "arith" /\ CanBwd
  /\ hist' = Append(hist, G)
  /\ G' = bwdArithmeticInst(G, W, I)
  /\ pc' = "bwd"
  /\ UNCHANGED <<I, W, oob>>

NextArith == FwdArithmetic \/ BwdArithmetic

SpecArith == InitArith /\ [][NextArith]_vars

---------------------------------------------------------------------------
(* Transpose: inputs and driver.  A second Transpose instruction, with     *)
(* shuffle I.second, reads the dest of the first and writes "back".        *)

\* the permutations of 0..(r-1), as shuffles
Shuffles(r) ==
  {p \in [1..r -> 0..(r - 1)] : \A i, j \in 1..r : p[i] = p[j] => i = j}

TransposeDims == {<<2, 3>>, <<2, 1, 3>>}

InitTranspose ==
  \E idim \in TransposeDims, gf \in GradFills :
    \E p \in Shuffles(Len(idim)), q \in Shuffles(Len(idim)) :
      LET odim == [i \in 1..Len(idim) |-> idim[p[i] + 1]]
      IN  /\ I = [op |-> "transpose", shuffle |-> p, second |-> q]
          /\ W = [src |-> Ramp(idim, 1, 1), dest |-> Zero(odim), back |-> Zero(idim)]
          /\ G = [src |-> Fill(idim, gf), dest |-> Ramp(odim, -1, 2)]
          /\ pc = "ready"
          /\ hist = <<>>
          /\ oob = FALSE

FwdTranspose ==
  /\ I.op = "transpose" /\ pc = "ready"
  /\ W' = fwdTransposeInst(W, I.shuffle, "src", "dest")
  /\ pc' = "fwd"
  /\ UNCHANGED <<I, G, hist, oob>>

FwdTransposeBack ==
  /\ I.op = "transpose" /\ pc = "fwd"
  /\ W' = fwdTransposeInst(W, I.second, "dest", "back")
  /\ pc' = "fwd2"
  /\ UNCHANGED <<I, G, hist, oob>>

BwdTranspose ==
  /\ I.op = "transpose" /\ pc \in {"fwd", "fwd2", "bwd"} /\ Len(hist) < MaxBwd
  /\ hist' = Append(hist, G)
  /\ G' = bwdTransposeInst(G, I.shuffle)
  /\ pc' = "bwd"
  /\ UNCHANGED <<I, W, oob>>

NextTranspose == FwdTranspose \/ FwdTransposeBack \/ BwdTranspose

SpecTranspose == InitTranspose /\ [][NextTranspose]_vars

---------------------------------------------------------------------------
(* Batch Normalization (forward)                                           *)

\* Handle::getDimForPtr: the coordinate of flat index i along one axis
getDimForPtr(T, axis, i) == Coord(T.dims, i)[axis + 1]

\* "(x - mu) * gamma * stdvar + beta" with stdvar = 1 / sqrt(var + epsilon):
\* the square root stays symbolic, the element is num / sqrt(rad) + off
bnElem(x, mu, var, gamma, beta, epsilon) ==
  [num |-> RMul(RSub(x, mu), gamma), rad |-> RAdd(var, epsilon), off |-> beta]

fwdBatchNormalizationInst_infer(w, inst) ==
  LET inW == w["src"]
      Step(outW, i) ==
        LET channelId == getDimForPtr(inW, inst.channelIdx, i)
        IN  setRaw(outW, i,
                   bnElem(raw(inW, i), at(w["mean"], <<channelId>>),
                          at(w["var"], <<channelId>>), at(w["scale"], <<channelId>>),
                          at(w["bias"], <<channelId>>), inst.epsilon))
  IN  [w EXCEPT !["dest"] = FoldSeq(Step, w["dest"], [k \in 1..size(inW) |-> k - 1])]

\* the running statistic blended with the polarity reversed
bnBlend_reversed(P, local, old) == RAdd(RMul(RSub(R(1), P), local), RMul(P, old))

\* "P * localMeanH.at({i}) + (1 - P) * meanH.at({i})"
bnBlend(P, local, old) == RAdd(RMul(P, local), RMul(RSub(R(1), P), old))

fwdBatchNormalizationInst_train(w, inst) ==
  LET inW == w["src"]
      meanH == w["mean"]
      varH == w["var"]
      numChannels == inW.dims[inst.channelIdx + 1]
      samplesPerChannel == R(size(inW) \div numChannels)
      All == [k \in 1..size(inW) |-> k - 1]
      Chan == [k \in 1..size(meanH) |-> k - 1]
      SumStep(lm, i) ==
        LET channelId == getDimForPtr(inW, inst.channelIdx, i)
        IN  setRaw(lm, channelId, RAdd(raw(lm, channelId), raw(inW, i)))
      DivStep(l, i) == setAt(l, <<i>>, RDiv(at(l, <<i>>), samplesPerChannel))
      localMean == FoldSeq(DivStep, FoldSeq(SumStep, Zero(meanH.dims), All), Chan)
      VarStep(lv, i) ==
        LET channelId == getDimForPtr(inW, inst.channelIdx, i)
            v == RSub(raw(inW, i), at(localMean, <<channelId>>))
        IN  setRaw(lv, channelId, RAdd(raw(lv, channelId), RMul(v, v)))
      localVar == FoldSeq(DivStep, FoldSeq(VarStep, Zero(varH.dims), All), Chan)
      P == inst.momentum
      UpdStep(mv, i) ==
        [mean |-> setAt(mv.mean, <<i>>, bnBlend(P, at(localMean, <<i>>), at(mv.mean, <<i>>))),
         var |-> setAt(mv.var, <<i>>, bnBlend(P, at(localVar, <<i>>), at(mv.var, <<i>>)))]
      upd == FoldSeq(UpdStep, [mean |-> meanH, var |-> varH], Chan)
  IN  fwdBatchNormalizationInst_infer(
        [w EXCEPT !["mean"] = upd.mean, !["var"] = upd.var], inst)

fwdBatchNormalizationInst(w, isTrain, inst) ==
  IF isTrain THEN fwdBatchNormalizationInst_train(w, inst)
  ELSE fwdBatchNormalizationInst_infer(w, inst)

---------------------------------------------------------------------------
(* Local Response Normalization (forward)                                  *)

\* "inW.at(...) * std::pow(scale, -beta)": the power stays symbolic
lrnElem(x, scale, beta) == [num |-> x, base |-> scale, exp |-> RSub(R(0), beta)]

\* "Compute squareSum for first channel": c = 1 .. halfWindowSize while c < idim.c
lrnFirstSquareSum(inW, n, h, w, halfWindowSize) ==
  LET last == IF halfWindowSize < ShapeC(inW) - 1 THEN halfWindowSize
              ELSE ShapeC(inW) - 1
      Step(squareSum, c) ==
        LET val == at(inW, <<n, h, w, c>>) IN RAdd(squareSum, RMul(val, val))
  IN  FoldSeq(Step, R(0), [c \in 1..last |-> c])

fwdLocalResponseNormalizationInst(w, inst) ==
  LET inW == w["src"]
      idim == inW.dims
      halfWindowSize == inst.halfWindowSize
      windowSize == 2 * halfWindowSize + 1
      normedAlpha == RDiv(inst.alpha, R(windowSize))
      Chan(st, n, h, x) ==
        LET Step(s, c) ==
              LET scale == RAdd(inst.k, RMul(normedAlpha, s.squareSum))
                  subIndex == c - halfWindowSize
                  addIndex == c + halfWindowSize + 1
                  sub == IF c >= halfWindowSize THEN at(inW, <<n, h, x, subIndex>>)
                         ELSE R(0)
                  add == IF addIndex < idim[4] THEN at(inW, <<n, h, x, addIndex>>)
                         ELSE R(0)
              IN  [scaleCache |-> setAt(s.scaleCache, <<n, h, x, c>>, scale),
                   outW |-> setAt(s.outW, <<n, h, x, c>>,
                                  lrnElem(at(inW, <<n, h, x, c>>), scale, inst.beta)),
                   squareSum |-> RAdd(RSub(s.squareSum, RMul(sub, sub)), RMul(add, add))]
        IN  FoldSeq(Step,
                    [scaleCache |-> st.scaleCache, outW |-> st.outW,
                     squareSum |-> lrnFirstSquareSum(inW, n, h, x, halfWindowSize)],
                    [c \in 1..idim[4] |-> c - 1])
      Pos(st, o) == Chan(st, o[1], o[2], o[3])
      res == FoldSeq(Pos, [scaleCache |-> w["scale"], outW |-> w["dest"], squareSum |-> R(0)],
                     Loops(<<idim[1], idim[2], idim[3]>>))
  IN  [w EXCEPT !["dest"] = res.outW, !["scale"] = res.scaleCache]

---------------------------------------------------------------------------
(* Tensor allocation operations.                                           *)

\* "allocateBackingTensor(I)": a value that has a backing tensor keeps it
allocateBackingTensor(w, v) == w

\* every gradient tensor zeroed, the ones paired with filters included
fwdAllocActivationInst_all(g, v) == [u \in DOMAIN g |-> Zero(g[u].dims)]

\* "getOrCreateGradTensor(I)->zero()": the gradient paired with the value
fwdAllocActivationInst(g, v) == [g EXCEPT ![v] = Zero(g[v].dims)]

\* "bwdAllocActivationInst(...) {}"
bwdAllocActivationInst(g, v) == g

\* "fwdDeallocActivationInst(...) {}"
fwdDeallocActivationInst(g, v) == g

\* "bwdDeallocActivationInst(...) {}"
bwdDeallocActivationInst(g, v) == g

---------------------------------------------------------------------------
(* Activation lifecycle: a fully connected layer whose activations are     *)
(* allocated and released around the kernels, in any order the caller      *)
(* invokes them.  Here hist logs the gradients at the entry of every step. *)

InitSweep ==
  \E gf \in GradFills, outG \in {R(1), R(-2)} :
    /\ I = [op |-> "sweep", v |-> "dest"]
    /\ W = [src |-> Ramp(<<1, 2>>, 1, 1), dest |-> Zero(<<1, 1>>),
            filter |-> Ramp(<<1, 2>>, -1, 1), bias |-> Ramp(<<1>>, 10, 10)]
    /\ G = [src |-> Fill(<<1, 2>>, gf), dest |-> Fill(<<1, 1>>, outG),
            filter |-> Fill(<<1, 2>>, gf), bias |-> Fill(<<1>>, gf)]
    /\ pc = "ready"
    /\ hist = <<>>
    /\ oob = FALSE

CanSweep == I.op = "sweep" /\ Len(hist) < MaxSweep

FwdAllocActivation ==
  /\ CanSweep
  /\ \E v \in {"src", "dest"} :
       /\ I' = [I EXCEPT !.v = v]
       /\ W' = allocateBackingTensor(W, v)
       /\ G' = fwdAllocActivationInst(G, v)
  /\ hist' = Append(hist, G)
  /\ pc' = "fwdAlloc"
  /\ UNCHANGED oob

BwdAllocActivation ==
  /\ CanSweep
  /\ \E v \in {"src", "dest"} :
       /\ I' = [I EXCEPT !.v = v]
       /\ G' = bwdAllocActivationInst(G, v)
  /\ hist' = Append(hist, G)
  /\ pc' = "bwdAlloc"
  /\ UNCHANGED <<W, oob>>

FwdDeallocActivation ==
  /\ CanSweep
  /\ \E v \in {"src", "dest"} :
       /\ I' = [I EXCEPT !.v = v]
       /\ G' = fwdDeallocActivationInst(G, v)
  /\ hist' = Append(hist, G)
  /\ pc' = "fwdDealloc"
  /\ UNCHANGED <<W, oob>>

BwdDeallocActivation ==
  /\ CanSweep
  /\ \E v \in {"src", "dest"} :
       /\ I' = [I EXCEPT !.v = v]
       /\ G' = bwdDeallocActivationInst(G, v)
  /\ hist' = Append(hist, G)
  /\ pc' = "bwdDealloc"
  /\ UNCHANGED <<W, oob>>

SweepForward ==
  /\ CanSweep
  /\ W' = fwdFullyConnectedInst(W)
  /\ hist' = Append(hist, G)
  /\ pc' = "fwd"
  /\ UNCHANGED <<I, G, oob>>

SweepBackward ==
  /\ CanSweep
  /\ G' = bwdFullyConnectedInst(G, W)
  /\ hist' = Append(hist, G)
  /\ pc' = "bwd"
  /\ UNCHANGED <<I, W, oob>>

NextSweep ==
  \/ FwdAllocActivation \/ BwdAllocActivation
  \/ FwdDeallocActivation \/ BwdDeallocActivation
  \/ SweepForward \/ SweepBackward

SpecSweep == InitSweep /\ [][NextSweep]_vars

---------------------------------------------------------------------------
(* Batch Normalization: inputs and driver.  The forward is called up to    *)
(* MaxBwd times, in training or inference mode; hist logs the calls.       *)

\* source extents and the channel axis
BnShapes ==
  { [dims |-> <<2, 2>>, channelIdx |-> 1],
    [dims |-> <<2, 2>>, channelIdx |-> 0],
    [dims |-> <<1, 2, 1, 3>>, channelIdx |-> 3],
    [dims |-> <<3, 1>>, channelIdx |-> 1] }

Momenta == {R(0), R(1), Q(1, 4)}

InitBatchNorm ==
  \E sh \in BnShapes, P \in Momenta :
    LET cdim == <<sh.dims[sh.channelIdx + 1]>>
    IN  /\ I = [op |-> "bn", channelIdx |-> sh.channelIdx, momentum |-> P,
                epsilon |-> Q(1, 100)]
        /\ \E src \in {Ramp(sh.dims, 1, 1), Cyc(sh.dims, <<-1, 2, 0, 5, 5>>)},
              mean \in {Zero(cdim), Ramp(cdim, 3, -2)} :
             W = [src |-> src, dest |-> Zero(sh.dims), mean |-> mean,
                  var |-> Ramp(cdim, 1, 1), scale |-> Ramp(cdim, 2, 1),
                  bias |-> Ramp(cdim, 0, 1)]
        /\ G = [src |-> Zero(sh.dims), dest |-> Zero(sh.dims)]
        /\ pc = "ready"
        /\ hist = <<>>
        /\ oob = FALSE

FwdBatchNormalization ==
  /\ I.op = "bn" /\ Len(hist) < MaxBwd
  /\ \E isTrain \in BOOLEAN :
       /\ W' = fwdBatchNormalizationInst(W, isTrain, I)
       /\ pc' = IF isTrain THEN "fwdTrain" ELSE "fwdInfer"
  /\ hist' = Append(hist, G)
  /\ UNCHANGED <<I, G, oob>>

NextBatchNorm == FwdBatchNormalization

SpecBatchNorm == InitBatchNorm /\ [][NextBatchNorm]_vars

---------------------------------------------------------------------------
(* Local Response Normalization: inputs and driver.                        *)

LrnDims == {<<1, 1, 1, 1>>, <<1, 1, 1, 2>>, <<1, 1, 2, 3>>, <<2, 1, 1, 4>>}

HalfWindows == {0, 1, 2}

InitLRN ==
  \E d \in LrnDims, hw \in HalfWindows, alpha \in {R(1), R(3)}, k \in {R(1), R(2)} :
    /\ I = [op |-> "lrn", halfWindowSize |-> hw, alpha |-> alpha, beta |-> Q(3, 4),
            k |-> k]
    /\ \E src \in {Ramp(d, 1, 1), Cyc(d, <<2, 1, 0, -3, 1>>), Zero(d)} :
         W = [src |-> src, dest |-> Zero(d), scale |-> Zero(d)]
    /\ G = [src |-> Zero(d), dest |-> Zero(d)]
    /\ pc = "ready"
    /\ hist = <<>>
    /\ oob = FALSE

FwdLocalResponseNormalization ==
  /\ I.op = "lrn" /\ pc = "ready"
  /\ W' = fwdLocalResponseNormalizationInst(W, I)
  /\ pc' = "fwd"
  /\ UNCHANGED <<I, G, hist, oob>>

NextLRN == FwdLocalResponseNormalization

SpecLRN == InitLRN /\ [][NextLRN]_vars

---------------------------------------------------------------------------
(* One value consumed by two instructions.  The value v is the src of the  *)
(* instructions I.A and I.B; W and G hold v under "src" and, under "A" and *)
(* "B", the other operands of each instruction (dest, filter, bias, srcXY, *)
(* expected).  Each kernel sees its own operands and v.                    *)

\* the operands of instruction r as the kernel sees them
View(m, r) ==
  [k \in DOMAIN m[r] \cup {"src"} |-> IF k = "src" THEN m["src"] ELSE m[r][k]]

\* the context after the kernel of instruction r left the operands v
Merge(m, r, v) ==
  [m EXCEPT !["src"] = v["src"], ![r] = [k \in DOMAIN m[r] |-> v[k]]]

\* the kernel of the instruction's kind
fwdInst(w, inst, j) ==
  CASE inst.kind = "copy" -> fwdCopyInst(w)
    [] inst.kind = "reshape" -> fwdReshapeInst(w)
    [] inst.kind = "relu" -> fwdReluInst(w)
    [] inst.kind = "fc" -> fwdFullyConnectedInst(w)
    [] inst.kind = "conv" -> fwdConvolutionInst(w, inst, j)
    [] inst.kind = "maxpool" -> fwdPoolMax_impl(w, inst).w
    [] inst.kind = "avgpool" -> fwdPoolAvg_impl(w, inst)
    [] inst.kind = "regression" -> fwdRegressionInst(w)

bwdInst(g, w, inst, j) ==
  CASE inst.kind = "copy" -> bwdCopyInst(g)
    [] inst.kind = "reshape" -> bwdReshapeInst(g, w)
    [] inst.kind = "relu" -> bwdReluInst(g, w)
    [] inst.kind = "fc" -> bwdFullyConnectedInst(g, w)
    [] inst.kind = "conv" -> bwdConvolutionInst(g, w, inst, j)
    [] inst.kind = "maxpool" -> bwdPoolMax_impl(g, w)
    [] inst.kind = "avgpool" -> bwdPoolAvg_impl(g, w, inst)
    [] inst.kind = "regression" -> bwdRegressionInst(g, w)

\* the instructions: the convolutions are one that stays inside its input
\* (kernel 3, pad 1) and one whose output is larger than its input
TwoInsts ==
  { [kind |-> "copy"], [kind |-> "reshape"], [kind |-> "relu"],
    [kind |-> "fc", out |-> 2],
    [kind |-> "conv", kernel |-> 3, stride |-> 1, pad |-> 1],
    [kind |-> "conv", kernel |-> 2, stride |-> 1, pad |-> 1],
    [kind |-> "maxpool", kernel |-> 2, stride |-> 1, pad |-> 1],
    [kind |-> "avgpool", kernel |-> 2, stride |-> 1, pad |-> 1],
    [kind |-> "regression"] }

Spatial(inst) == inst.kind \in {"conv", "maxpool", "avgpool"}

\* the kinds that accept a source of extents d: the spatial kernels read
\* NHWC, Regression asserts two dimensions
Accepts(inst, d) ==
  /\ Spatial(inst) => Len(d) = 4
  /\ inst.kind = "regression" => Len(d) = 2

DestDims(inst, d) ==
  CASE inst.kind \in {"copy", "relu", "regression"} -> d
    [] inst.kind = "reshape" -> <<Prod(d)>>
    [] inst.kind = "fc" -> <<d[1], inst.out>>
    [] Spatial(inst) ->
         <<d[1], OutExtent(d[2], inst.kernel, inst.stride, inst.pad),
                 OutExtent(d[3], inst.kernel, inst.stride, inst.pad), 1>>

\* the weights of the other operands of an instruction over a source of
\* extents d; t tells the two instructions' values apart
OperandW(inst, d, t) ==
  LET dest == Zero(DestDims(inst, d))
  IN  CASE inst.kind \in {"copy", "reshape", "relu", "avgpool"} -> [dest |-> dest]
        [] inst.kind = "fc" ->
             [dest |-> dest, filter |-> Ramp(<<inst.out, flattenCdr(d)[2]>>, -t, 1),
              bias |-> Ramp(<<inst.out>>, t, 1)]
        [] inst.kind = "conv" ->
             [dest |-> dest, filter |-> Ramp(<<1, inst.kernel, inst.kernel, d[4]>>, t, -1),
              bias |-> Ramp(<<1>>, t, 1)]
        [] inst.kind = "maxpool" ->
             [dest |-> dest, srcXY |-> Fill(DestDims(inst, d) \o <<2>>, 0)]
        [] inst.kind = "regression" -> [dest |-> dest, expected |-> Ramp(d, t, 2)]

\* their gradients: outG under dest, and what earlier sweeps left elsewhere
OperandG(inst, d, t, gf) ==
  LET outG == Ramp(DestDims(inst, d), t, t + 1)
  IN  CASE inst.kind \in {"copy", "reshape", "relu", "avgpool", "maxpool",
                          "regression"} -> [dest |-> outG]
        [] inst.kind = "fc" ->
             [dest |-> outG, filter |-> Fill(<<inst.out, flattenCdr(d)[2]>>, gf),
              bias |-> Fill(<<inst.out>>, gf)]
        [] inst.kind = "conv" ->
             [dest |-> outG, filter |-> Fill(<<1, inst.kernel, inst.kernel, d[4]>>, gf),
              bias |-> Fill(<<1>>, gf)]

InitTwo ==
  \E d \in {<<1, 2, 2, 1>>, <<2, 2>>}, a \in TwoInsts, b \in TwoInsts, gf \in GradFills :
    /\ Accepts(a, d) /\ Accepts(b, d)
    /\ I = [op |-> "two", A |-> a, B |-> b]
    /\ W = [src |-> Cyc(d, <<2, -1, 0, 3>>), A |-> OperandW(a, d, 1),
            B |-> OperandW(b, d, 2)]
    /\ G = [src |-> Fill(d, gf), A |-> OperandG(a, d, 1, gf), B |-> OperandG(b, d, 2, gf)]
    /\ pc = "ready"
    /\ hist = <<>>
    /\ oob = FALSE

\* the forward of instruction r
TwoForward(r, next) ==
  LET w == View(W, r)
  IN  IF I[r].kind = "conv" /\ convOutOfBounds(w, I[r])
      THEN /\ oob' = TRUE
           /\ \/ \E j \in Junk : W' = Merge(W, r, fwdInst(w, I[r], j)) /\ pc' = next
              \/ W' = W /\ pc' = "abort"
      ELSE /\ W' = Merge(W, r, fwdInst(w, I[r], R(0)))
           /\ pc' = next
           /\ oob' = oob

\* the backward of instruction r
TwoBackward(r, next) ==
  LET w == View(W, r)
      g == View(G, r)
  IN  IF I[r].kind = "conv" /\ convOutOfBounds(w, I[r])
      THEN /\ oob' = TRUE
           /\ \/ \E j \in Junk : G' = Merge(G, r, bwdInst(g, w, I[r], j)) /\ pc' = next
              \/ G' = G /\ pc' = "abort"
      ELSE /\ G' = Merge(G, r, bwdInst(g, w, I[r], R(0)))
           /\ pc' = next
           /\ oob' = oob

FwdFirst ==
  /\ I.op = "two" /\ pc = "ready"
  /\ TwoForward("A", "fwdA")
  /\ UNCHANGED <<I, G, hist>>

FwdSecond ==
  /\ I.op = "two" /\ pc = "fwdA"
  /\ TwoForward("B", "fwd")
  /\ UNCHANGED <<I, G, hist>>

BwdFirst ==
  /\ I.op = "two" /\ pc \in {"fwd", "bwdB"}
  /\ hist' = Append(hist, G)
  /\ TwoBackward("A", IF pc = "fwd" THEN "bwdA" ELSE "bwd")
  /\ UNCHANGED <<I, W>>

BwdSecond ==
  /\ I.op = "two" /\ pc \in {"fwd", "bwdA"}
  /\ hist' = Append(hist, G)
  /\ TwoBackward("B", IF pc = "fwd" THEN "bwdB" ELSE "bwd")
  /\ UNCHANGED <<I, W>>

NextTwo == FwdFirst \/ FwdSecond \/ BwdFirst \/ BwdSecond

SpecTwo == InitTwo /\ [][NextTwo]_vars

---------------------------------------------------------------------------
(* Every kernel.                                                           *)

Init ==
  \/ InitCopy
  \/ InitConv
  \/ InitPool
  \/ InitFC
  \/ InitRelu
  \/ InitSoftMax
  \/ InitRegression
  \/ InitArith
  \/ InitTranspose
  \/ InitBatchNorm
  \/ InitLRN
  \/ InitSweep
  \/ InitTwo

Next ==
  \/ FwdCopy \/ BwdCopy
  \/ FwdReshape \/ BwdReshape
  \/ FwdConvolution \/ BwdConvolution
  \/ FwdPoolMax \/ FwdPoolAvg \/ BwdPoolMax \/ BwdPoolAvg
  \/ FwdFullyConnected \/ BwdFullyConnected
  \/ FwdRelu \/ BwdRelu
  \/ FwdSoftMax \/ BwdSoftMax
  \/ FwdRegression \/ BwdRegression
  \/ FwdArithmetic \/ BwdArithmetic
  \/ FwdTranspose \/ FwdTransposeBack \/ BwdTranspose
  \/ FwdBatchNormalization
  \/ FwdLocalResponseNormalization
  \/ FwdAllocActivation \/ BwdAllocActivation
  \/ FwdDeallocActivation \/ BwdDeallocActivation
  \/ SweepForward \/ SweepBackward
  \/ FwdFirst \/ FwdSecond \/ BwdFirst \/ BwdSecond

Spec == Init /\ [][Next]_vars

---------------------------------------------------------------------------
(* Properties.                                                             *)

Done == pc \in {"fwd", "bwd"}

\* the coordinates of a tensor of extents d
Coords(d) == {Coord(d, k) : k \in 0..(Prod(d) - 1)}

\* the positions <<fy, fx>> of the window anchored at (x, y) that lie inside
\* the spatial extents h, w
InRange(x, y, kernel, h, w) ==
  {f \in (0..(kernel - 1)) \X (0..(kernel - 1)) :
     /\ x + f[2] >= 0 /\ x + f[2] < h
     /\ y + f[1] >= 0 /\ y + f[1] < w}

\* bias(d) plus the products over the window positions inside the input
ConvExpected(n, ax, ay, d) ==
  LET x == -I.pad + ax * I.stride
      y == -I.pad + ay * I.stride
      idim == W["src"].dims
      Term(t) == RMul(at(W["filter"], <<d, t[2], t[1], t[3]>>),
                      at(W["src"], <<n, x + t[2], y + t[1], t[3]>>))
      S == {<<f[1], f[2], fd>> : f \in InRange(x, y, I.kernel, idim[2], idim[3]),
                                 fd \in 0..(idim[4] - 1)}
  IN  RAdd(at(W["bias"], <<d>>), RSumSet(Term, S))

\* C1: after the convolution forward every dest(n, ax, ay, d) is bias(d) plus
\* the sum of filter(d, fx, fy, fd) * src(n, x+fx, y+fy, fd) over exactly the
\* window positions inside the INPUT spatial range.  Stated on the runs in
\* which the kernel stays inside its tensors, where every value is defined.
C1_ConvForwardInputRange ==
  (I.op = "conv" /\ Done /\ ~oob) =>
    \A o \in Coords(W["dest"].dims) :
      at(W["dest"], o) = ConvExpected(o[1], o[2], o[3], o[4])

---------------------------------------------------------------------------
(* Pooling properties.                                                     *)

IsPool(kind) == I.op = "pool" /\ I.kind = kind

\* the anchor of output position o = <<n, ax, ay, z>>
AnchorX(o) == -I.pad + o[2] * I.stride
AnchorY(o) == -I.pad + o[3] * I.stride

\* the window positions <<fy, fx>> of output position o inside the input
Window(o) ==
  InRange(AnchorX(o), AnchorY(o), I.kernel, W["src"].dims[2], W["src"].dims[3])

\* the input value under window position f of output position o
WinVal(o, f) == at(W["src"], <<o[1], AnchorX(o) + f[2], AnchorY(o) + f[1], o[4]>>)

\* where the scan (fy outer, fx inner) meets window position f
ScanPos(f) == f[1] * I.kernel + f[2]

\* the last position in scan order that attains the maximum of the window
LastMax(o) ==
  CHOOSE f \in Window(o) :
    /\ \A g \in Window(o) : RLe(WinVal(o, g), WinVal(o, f))
    /\ \A g \in Window(o) : WinVal(o, g) = WinVal(o, f) => ScanPos(g) <= ScanPos(f)

\* C2: after the MaxPool forward, every output position whose window has an
\* in-range position holds the maximum of the in-range window values, and
\* SXY holds the coordinate of the last position in scan order attaining it.
C2_MaxPoolLastMaximum ==
  (IsPool("Max") /\ Done) =>
    \A o \in Coords(W["dest"].dims) :
      Window(o) # {} =>
        /\ at(W["dest"], o) = WinVal(o, LastMax(o))
        /\ at(W["srcXY"], o \o <<0>>) = AnchorX(o) + LastMax(o)[2]
        /\ at(W["srcXY"], o \o <<1>>) = AnchorY(o) + LastMax(o)[1]

\* a window with a tie for a negative maximum, part of it outside the input
C2_Witness ==
  /\ IsPool("Max") /\ Done
  /\ \E o \in Coords(W["dest"].dims) :
       /\ Cardinality(Window(o)) < I.kernel * I.kernel
       /\ RLt(at(W["dest"], o), R(0))
       /\ \E f \in Window(o) : f # LastMax(o) /\ WinVal(o, f) = WinVal(o, LastMax(o))

\* the output positions whose saved coordinate is the input position i
RoutedTo(i) ==
  {o \in Coords(W["dest"].dims) :
     /\ o[1] = i[1] /\ o[4] = i[4]
     /\ at(W["srcXY"], o \o <<0>>) = i[2]
     /\ at(W["srcXY"], o \o <<1>>) = i[3]}

OutGAt(o) == at(G["dest"], o)
InGAt(i) == at(G["src"], i)

\* the sum of gradient tensor T over batch n and channel z
PlaneSum(T, n, z) ==
  LET At(c) == at(T, c)
  IN  RSumSet(At, {c \in Coords(T.dims) : c[1] = n /\ c[4] = z})

FirstBwdFromZero ==
  /\ pc = "bwd" /\ Len(hist) = 1
  /\ hist[1]["src"] = Zero(W["src"].dims)

\* C3: MaxPool forward then backward from an all-zero inG: every inG element
\* is the sum of outG over the output positions whose saved coordinate it is
\* (0 where there is none), and per (n, z) inG and outG have the same total.
C3_MaxPoolBackwardRouting ==
  (IsPool("Max") /\ FirstBwdFromZero) =>
    /\ \A i \in Coords(W["src"].dims) : InGAt(i) = RSumSet(OutGAt, RoutedTo(i))
    /\ \A n \in 0..(W["src"].dims[1] - 1), z \in 0..(W["src"].dims[4] - 1) :
         PlaneSum(G["src"], n, z) = PlaneSum(G["dest"], n, z)

\* two overlapping windows route to one input element, off the diagonal
C3_Witness ==
  /\ IsPool("Max") /\ FirstBwdFromZero
  /\ \E i \in Coords(W["src"].dims) : Cardinality(RoutedTo(i)) >= 2
  /\ \E i \in Coords(W["src"].dims) : RoutedTo(i) # {} /\ i[2] # i[3]

\* C4: after the AvgPool forward, dest * K*K is the sum of src over the
\* in-range positions of the window, however many are in range.
C4_AvgPoolDivisor ==
  (IsPool("Avg") /\ Done) =>
    \A o \in Coords(W["dest"].dims) :
      LET Val(f) == WinVal(o, f)
      IN  RMul(at(W["dest"], o), R(I.kernel * I.kernel)) = RSumSet(Val, Window(o))

\* K=2, S=1, P=1 on a 2x2 all-ones input: the top-left output is 1/4
C4_Witness ==
  /\ IsPool("Avg") /\ Done
  /\ I.kernel = 2 /\ I.stride = 1 /\ I.pad = 1
  /\ W["src"] = Fill(<<1, 2, 2, 1>>, R(1))
  /\ at(W["dest"], <<0, 0, 0, 0>>) = Q(1, 4)
  /\ Cardinality(Window(<<0, 0, 0, 0>>)) < 4

---------------------------------------------------------------------------
(* Fully Connected, ReLU, SoftMax properties.                              *)

\* the elements 0..(n-1)
Upto(n) == 0..(n - 1)

\* C5: after the FullyConnected forward, with src flattened to (N, M_in) by
\* keeping the first extent and multiplying the rest, dest(n, i) is
\* bias(i) + sum over j < M_in of src(n, j) * filter(i, j).
C5_FullyConnectedForward ==
  (I.op = "fc" /\ Done) =>
    LET N == W["src"].dims[1]
        Min == Prod(Tail(W["src"].dims))
        Mout == W["filter"].dims[1]
    IN  \A n \in Upto(N), i \in Upto(Mout) :
          LET Term(j) == RMul(W["src"].data[n * Min + j + 1],
                              W["filter"].data[i * Min + j + 1])
          IN  W["dest"].data[n * Mout + i + 1] =
                RAdd(W["bias"].data[i + 1], RSumSet(Term, Upto(Min)))

\* src [[1,2,3],[4,5,6]], filter [[1,0,0],[0,1,0]], bias [10,20]
C5_Witness ==
  /\ I.op = "fc" /\ Done
  /\ W["src"] = Tensor(<<2, 3>>, RSeq(<<1, 2, 3, 4, 5, 6>>))
  /\ W["filter"] = Tensor(<<2, 3>>, RSeq(<<1, 0, 0, 0, 1, 0>>))
  /\ W["bias"] = Tensor(<<2>>, RSeq(<<10, 20>>))
  /\ W["dest"] = Tensor(<<2, 2>>, RSeq(<<11, 22, 14, 25>>))

\* the gradients at the entry of the latest backward run
Before == hist[Len(hist)]

\* C6: a ReLU backward run adds outG(i) to inG(i) exactly when the forward
\* output dest(i) is strictly positive, and 0 otherwise; an input that is 0
\* or negative contributes nothing.
C6_ReluBackwardGate ==
  (I.op = "relu" /\ pc = "bwd") =>
    \A k \in 1..size(W["src"]) :
      LET delta == RSub(G["src"].data[k], Before["src"].data[k])
      IN  /\ RLt(R(0), W["dest"].data[k]) => delta = G["dest"].data[k]
          /\ ~RLt(R(0), W["dest"].data[k]) => delta = R(0)
          /\ RLe(W["src"].data[k], R(0)) => delta = R(0)

\* src = [-1, 0, 2], outG = [5, 7, 9], inG zero before: inG = [0, 0, 9]
C6_Witness ==
  /\ I.op = "relu" /\ pc = "bwd" /\ Len(hist) = 1
  /\ W["src"].data = RSeq(<<-1, 0, 2>>)
  /\ G["dest"].data = RSeq(<<5, 7, 9>>)
  /\ hist[1]["src"].data = RSeq(<<0, 0, 0>>)
  /\ G["src"].data = RSeq(<<0, 0, 9>>)

\* row n of tensor T of extents (N, M), as a sequence
Row(T, n) == [k \in 1..T.dims[2] |-> at(T, <<n, k - 1>>)]

RECURSIVE RSumSeq(_)
RSumSeq(q) == IF q = <<>> THEN R(0) ELSE RAdd(Head(q), RSumSeq(Tail(q)))

\* the cache row is a probability vector and the label is a column
SoftMaxRowOk(n) ==
  /\ \A k \in 1..W["E"].dims[2] : RLe(R(0), Row(W["E"], n)[k])
  /\ RSumSeq(Row(W["E"], n)) = R(1)
  /\ at(W["selected"], <<n, 0>>) \in Upto(W["E"].dims[2])

\* C7: SoftMax backward from an all-zero inG row, for a row whose cache is
\* non-negative and sums to 1 and whose label s is a column: inG(n, s) is
\* E(n, s) - 1 <= 0, inG(n, i) is E(n, i) >= 0 for i # s, the row sums to 0.
C7_SoftMaxBackwardSign ==
  (I.op = "softmax" /\ FirstBwdFromZero) =>
    \A n \in Upto(W["E"].dims[1]) :
      SoftMaxRowOk(n) =>
        LET s == at(W["selected"], <<n, 0>>)
            row == Row(G["src"], n)
        IN  /\ row[s + 1] = RSub(at(W["E"], <<n, s>>), R(1))
            /\ RLe(row[s + 1], R(0))
            /\ \A i \in Upto(Len(row)) \ {s} :
                 row[i + 1] = at(W["E"], <<n, i>>) /\ RLe(R(0), row[i + 1])
            /\ RSumSeq(row) = R(0)

\* E = [1/3, 1/3, 1/3], Sel = [0] gives [-2/3, 1/3, 1/3]
C7_Witness ==
  /\ I.op = "softmax" /\ FirstBwdFromZero
  /\ SoftMaxRowOk(0)
  /\ Row(W["E"], 0) = <<Q(1, 3), Q(1, 3), Q(1, 3)>>
  /\ at(W["selected"], <<0, 0>>) = 0
  /\ Row(G["src"], 0) = <<Q(-2, 3), Q(1, 3), Q(1, 3)>>

---------------------------------------------------------------------------
(* Arithmetic and accumulation properties.                                 *)

\* C8: with distinct LHS and RHS values the Arithmetic backward overwrites
\* both operand gradients whatever they held: Add gives LHSG = RHSG = outG,
\* Mul gives LHSG = RHS*outG and RHSG = LHS*outG; a later run changes nothing.
C8_ArithmeticBackwardOverwrites ==
  (I.op = "arith" /\ I.lhs # I.rhs /\ pc = "bwd") =>
    /\ \A k \in 1..size(G["dest"]) :
         LET dy == G["dest"].data[k]
         IN  IF I.kind = "Add"
             THEN G[I.lhs].data[k] = dy /\ G[I.rhs].data[k] = dy
             ELSE /\ G[I.lhs].data[k] = RMul(W[I.rhs].data[k], dy)
                  /\ G[I.rhs].data[k] = RMul(W[I.lhs].data[k], dy)
    /\ \A r \in 2..Len(hist) : hist[r] = G

\* LHS = [2], RHS = [3], outG = [1], LHSG = [99] before: LHSG = [3], RHSG = [2],
\* also after a second run
C8_Witness ==
  /\ I.op = "arith" /\ I.kind = "Mul" /\ I.lhs # I.rhs /\ pc = "bwd" /\ Len(hist) = 2
  /\ W[I.lhs].data = RSeq(<<2>>) /\ W[I.rhs].data = RSeq(<<3>>)
  /\ G["dest"].data = RSeq(<<1>>)
  /\ hist[1][I.lhs].data = RSeq(<<99>>)
  /\ G[I.lhs].data = RSeq(<<3>>) /\ G[I.rhs].data = RSeq(<<2>>)

\* the kernels whose backward accumulates
Accumulating ==
  I.op \in {"copy", "reshape", "conv", "pool", "fc", "relu", "regression", "softmax"}

\* the gradients at the entry of each backward run, then the current ones
Snapshots == Append(hist, G)

\* what the run between snapshots r and r+1 added to element k of buffer b
RunDelta(b, k, r) == RSub(Snapshots[r + 1][b].data[k], Snapshots[r][b].data[k])

\* every completed backward run added what the first one added
SameDeltaEveryRun ==
  \A r \in 2..Len(hist) :
    \A b \in DOMAIN G :
      \A k \in 1..size(G[b]) : RunDelta(b, k, r) = RunDelta(b, k, 1)

\* C9: for each accumulating backward kernel, with the weights, outG and the
\* saved state fixed, a second backward run adds to every gradient buffer
\* exactly what the first run added, from any initial gradients.
C9_BackwardTwiceDoubles ==
  (Accumulating /\ pc = "bwd") => SameDeltaEveryRun

\* the same on the runs whose kernels stay inside their tensors; it holds
AccumulationInsideTensors ==
  (Accumulating /\ pc = "bwd" /\ ~oob) => SameDeltaEveryRun

---------------------------------------------------------------------------
(* Transpose properties.                                                   *)

\* q is the inverse permutation of the shuffle p
IsInverse(q, p) ==
  /\ Len(q) = Len(p)
  /\ \A i \in 1..Len(p) : q[p[i] + 1] = i - 1
  /\ \A i \in 1..Len(p) : p[q[i] + 1] = i - 1

\* the coordinate a permuted by p: component j is a[p[j]]
Permuted(a, p) == [j \in 1..Len(p) |-> a[p[j] + 1]]

\* the second Transpose has written "back" (no element of src is 0)
BackWritten == W["back"] # Zero(W["back"].dims)

\* C10: the reverse shuffle the Transpose backward builds is the inverse of
\* the shuffle; the backward overwrites inG with outG under it (the element
\* of inG at coordinate a is the element of outG at the permuted coordinate);
\* and Transpose(pi) then Transpose(pi^-1) gives back the original tensor.
C10_TransposeInverse ==
  (I.op = "transpose") =>
    /\ IsInverse(reverseShuffle(I.shuffle), I.shuffle)
    /\ pc = "bwd" =>
         /\ G["src"].dims = W["src"].dims
         /\ \A a \in Coords(G["src"].dims) :
              at(G["src"], a) = at(G["dest"], Permuted(a, I.shuffle))
    /\ (BackWritten /\ IsInverse(I.second, I.shuffle)) => W["back"] = W["src"]

\* a shuffle that is not its own inverse, undone by the second Transpose,
\* and a backward run over an inG that held 99
C10_Witness ==
  /\ I.op = "transpose" /\ pc = "bwd"
  /\ ~IsInverse(I.shuffle, I.shuffle)
  /\ BackWritten /\ IsInverse(I.second, I.shuffle)
  /\ W["back"] = W["src"]
  /\ hist[1]["src"] = Fill(W["src"].dims, R(99))
  /\ G["src"] # hist[1]["src"]

---------------------------------------------------------------------------
(* Activation lifecycle properties.                                        *)

\* C11: whatever kernels ran before, the forward AllocActivation of a value
\* leaves that value's gradient all zero and every other gradient tensor as
\* it was; the backward AllocActivation and both DeallocActivation kernels
\* change no tensor.
C11_AllocActivationLifecycle ==
  [][I.op = "sweep" =>
       /\ (pc' = "fwdAlloc") =>
            /\ G'[I'.v] = Zero(G[I'.v].dims)
            /\ \A u \in DOMAIN G \ {I'.v} : G'[u] = G[u]
       /\ (pc' \in {"bwdAlloc", "fwdDealloc", "bwdDealloc"}) =>
            (W' = W /\ G' = G)]_vars

\* a forward allocation of src after a backward sweep accumulated into the
\* src, filter and bias gradients
C11_Witness ==
  /\ I.op = "sweep" /\ pc = "fwdAlloc" /\ I.v = "src" /\ Len(hist) >= 2
  /\ hist[Len(hist)]["src"] # Zero(<<1, 2>>)
  /\ hist[Len(hist)]["src"] # hist[1]["src"]
  /\ G["src"] = Zero(<<1, 2>>)
  /\ G["filter"] # hist[1]["filter"]
  /\ G["filter"] = hist[Len(hist)]["filter"]

---------------------------------------------------------------------------
(* Batch Normalization properties.                                         *)

\* the flat indices of the elements of channel c
ChannelElems(T, axis, c) ==
  {i \in 0..(size(T) - 1) : Coord(T.dims, i)[axis + 1] = c}

\* N_c = size / channels
SamplesPerChannel(T, axis) == size(T) \div T.dims[axis + 1]

BatchMean(T, axis, c) ==
  LET x(i) == raw(T, i)
  IN  RDiv(RSumSet(x, ChannelElems(T, axis, c)), R(SamplesPerChannel(T, axis)))

BatchVar(T, axis, c) ==
  LET mu == BatchMean(T, axis, c)
      sq(i) == RMul(RSub(raw(T, i), mu), RSub(raw(T, i), mu))
  IN  RDiv(RSumSet(sq, ChannelElems(T, axis, c)), R(SamplesPerChannel(T, axis)))

\* P * local + (1 - P) * old
Blended(P, local, old) == RAdd(RMul(P, local), RMul(RSub(R(1), P), old))

\* C12: a training forward leaves, for every channel c,
\* mean[c] = P*localMean[c] + (1-P)*oldMean[c] and likewise var, with
\* localMean and localVar the batch statistics over the N_c elements of the
\* channel (P = 1 replaces the running statistics, P = 0 keeps them); an
\* inference forward leaves mean and var unchanged.
C12_BatchNormRunningStatistics ==
  [][I.op = "bn" =>
       /\ (pc' = "fwdTrain") =>
            \A c \in 0..(size(W["mean"]) - 1) :
              /\ raw(W'["mean"], c) =
                   Blended(I.momentum, BatchMean(W["src"], I.channelIdx, c),
                           raw(W["mean"], c))
              /\ raw(W'["var"], c) =
                   Blended(I.momentum, BatchVar(W["src"], I.channelIdx, c),
                           raw(W["var"], c))
              /\ (I.momentum = R(1)) =>
                   /\ raw(W'["mean"], c) = BatchMean(W["src"], I.channelIdx, c)
                   /\ raw(W'["var"], c) = BatchVar(W["src"], I.channelIdx, c)
              /\ (I.momentum = R(0)) =>
                   /\ raw(W'["mean"], c) = raw(W["mean"], c)
                   /\ raw(W'["var"], c) = raw(W["var"], c)
       /\ (pc' = "fwdInfer") =>
            (W'["mean"] = W["mean"] /\ W'["var"] = W["var"])]_vars

\* a second training forward with momentum 1/4 over two channels: the
\* running mean moved, and it is not yet the batch mean
C12_Witness ==
  /\ I.op = "bn" /\ pc = "fwdTrain" /\ Len(hist) = 2
  /\ I.momentum = Q(1, 4) /\ size(W["mean"]) >= 2
  /\ raw(W["mean"], 0) # BatchMean(W["src"], I.channelIdx, 0)
  /\ raw(W["var"], 1) # BatchVar(W["src"], I.channelIdx, 1)
  /\ raw(W["var"], 1) # R(2)

---------------------------------------------------------------------------
(* Local Response Normalization properties.                                *)

\* the channels of the window [c - W, c + W] clipped to [0, C)
ChannelWindow(c, hw, C) == {cc \in 0..(C - 1) : cc >= c - hw /\ cc <= c + hw}

\* the sum of the squares of src over the channel window of c
WindowSquareSum(T, n, h, w, c, hw) ==
  LET sq(cc) == RMul(at(T, <<n, h, w, cc>>), at(T, <<n, h, w, cc>>))
  IN  RSumSet(sq, ChannelWindow(c, hw, ShapeC(T)))

\* the squareSum the cached scale was computed from: (scale - k) / normedAlpha
UsedSquareSum(o) ==
  RDiv(RSub(at(W["scale"], o), I.k), RDiv(I.alpha, R(2 * I.halfWindowSize + 1)))

\* C13: after the LRN forward, for every (n, h, w, c) the squareSum behind
\* scaleCache(n, h, w, c) = k + normedAlpha * squareSum is the sum of
\* src(n, h, w, c')^2 over the channel window [c - W, c + W] clipped to
\* [0, C), hence never negative (stated here for C >= 2); for C = 1 the
\* cached scale is k.
C13_LrnSlidingWindow ==
  (I.op = "lrn" /\ pc = "fwd") =>
    \A k \in 1..size(W["src"]) :
      LET o == Coord(W["src"].dims, k - 1)
      IN  IF ShapeC(W["src"]) = 1 THEN at(W["scale"], o) = I.k
          ELSE /\ UsedSquareSum(o) =
                    WindowSquareSum(W["src"], o[1], o[2], o[3], o[4], I.halfWindowSize)
               /\ RGe(UsedSquareSum(o), R(0))

\* what the kernel does compute: the window sum less the square of channel 0
\* (the first loop starts at channel 1, the slide still subtracts channel 0)
LrnWindowLessChannelZero ==
  (I.op = "lrn" /\ pc = "fwd") =>
    \A k \in 1..size(W["src"]) :
      LET o == Coord(W["src"].dims, k - 1)
          x0 == at(W["src"], <<o[1], o[2], o[3], 0>>)
      IN  UsedSquareSum(o) =
            RSub(WindowSquareSum(W["src"], o[1], o[2], o[3], o[4], I.halfWindowSize),
                 RMul(x0, x0))

\* two channels [2, 1], W = 0: the squareSum of channel 1 is 1 - 4 = -3
LrnNegativeSquareSum ==
  /\ I.op = "lrn" /\ pc = "fwd" /\ I.halfWindowSize = 0
  /\ W["src"] = Tensor(<<1, 1, 1, 2>>, RSeq(<<2, 1>>))
  /\ UsedSquareSum(<<0, 0, 0, 1>>) = R(-3)

---------------------------------------------------------------------------
(* Convolution backward: the batch index of the filter gradient.           *)

\* T with every element of the batches n >= 1 replaced by another value
Scrub(T) ==
  [T EXCEPT !.data = [k \in 1..size(T) |->
                        IF Coord(T.dims, k - 1)[1] = 0 THEN T.data[k]
                        ELSE RAdd(T.data[k], R(100))]]

\* the output positions (n, ax, ay) whose window reaches filter offset
\* (fx, fy) at a position the kernel's range test lets through
FilterReach(fx, fy) ==
  {o \in Coords(<<W["dest"].dims[1], W["dest"].dims[2], W["dest"].dims[3]>>) :
     ~convSkip(-I.pad + o[2] * I.stride + fx, -I.pad + o[3] * I.stride + fy,
               W["dest"].dims)}

\* src(0, ox, oy, fd), zero where the padding lies
SrcBatchZero(ox, oy, fd) ==
  IF isInBounds(W["src"].dims, <<0, ox, oy, fd>>) THEN at(W["src"], <<0, ox, oy, fd>>)
  ELSE R(0)

\* the sum over the reached positions of src(0, x+fx, y+fy, fd) * outG(n, ax, ay, d)
FilterDelta(d, fx, fy, fd) ==
  LET term(o) == RMul(SrcBatchZero(-I.pad + o[2] * I.stride + fx,
                                   -I.pad + o[3] * I.stride + fy, fd),
                      at(G["dest"], <<o[1], o[2], o[3], d>>))
  IN  RSumSet(term, FilterReach(fx, fy))

\* the sum of outG(n, ax, ay, d) over all n, ax, ay
BiasDelta(d) ==
  LET term(o) == at(G["dest"], <<o[1], o[2], o[3], d>>)
  IN  RSumSet(term, Coords(<<W["dest"].dims[1], W["dest"].dims[2], W["dest"].dims[3]>>))

BatchZeroOnly ==
  /\ \A j \in Junk :
       G'["filter"] =
         bwdConvolutionInst(G, [W EXCEPT !["src"] = Scrub(@)], I, j)["filter"]
  /\ \A k \in 1..size(G["filter"]) :
       LET f == Coord(G["filter"].dims, k - 1)
       IN  G'["filter"].data[k] =
             RAdd(G["filter"].data[k], FilterDelta(f[1], f[2], f[3], f[4]))
  /\ \A d \in 0..(size(G["bias"]) - 1) :
       raw(G'["bias"], d) = RAdd(raw(G["bias"], d), BiasDelta(d))

\* C14: the filter gradient a convolution backward produces depends on src
\* only through batch 0: a run on a src that differs at the batches n >= 1
\* ends with the same filterG, each filterG(d, fx, fy, fd) grows by the sum
\* of src(0, x+fx, y+fy, fd) * outG(n, ax, ay, d), and biasG(d) grows by the
\* sum of outG(n, ax, ay, d) over all n, ax, ay.  Stated for the inputs that
\* have a batch n >= 1.
C14_ConvBackwardBatchZero ==
  [][(I.op = "conv" /\ pc' = "bwd" /\ ShapeN(W["src"]) >= 2) => BatchZeroOnly]_vars

\* the same on the geometries whose backward stays inside the input; it holds
ConvBackwardBatchZeroInside ==
  [][(I.op = "conv" /\ pc' = "bwd" /\ ~convOutOfBounds(W, I)) => BatchZeroOnly]_vars

---------------------------------------------------------------------------
(* MaxPool forward: the empty window.                                      *)

\* the output positions <<n, ax, ay, z>> in the order the kernel visits them
\* (n, then z, then ay, then ax)
PoolOrder ==
  LET d == W["dest"].dims
      l == Loops(<<d[1], W["src"].dims[4], d[3], d[2]>>)
  IN  [k \in 1..Len(l) |-> <<l[k][1], l[k][4], l[k][3], l[k][2]>>]

\* the places in that order whose window has no position inside the input
EmptyWindows == {k \in 1..Len(PoolOrder) : Window(PoolOrder[k]) = {}}

FirstEmptyWindow == CHOOSE k \in EmptyWindows : \A m \in EmptyWindows : k <= m

\* C15: the MaxPool forward stops at its assertion exactly when some output
\* position has a window with no in-range input position; it stops at the
\* first such window in iteration order, having written the windows before
\* it and leaving dest and SXY of that window (and of the later ones) as
\* they were; otherwise it runs to the end.
C15_MaxPoolEmptyWindow ==
  [][(IsPool("Max") /\ pc = "ready") =>
       /\ (pc' = "abort") <=> (EmptyWindows # {})
       /\ (pc' = "fwd") <=> (EmptyWindows = {})
       /\ (EmptyWindows # {}) =>
            \A k \in 1..Len(PoolOrder) :
              LET o == PoolOrder[k]
              IN  IF k < FirstEmptyWindow
                  THEN /\ at(W'["dest"], o) = WinVal(o, LastMax(o))
                       /\ at(W'["srcXY"], o \o <<0>>) = AnchorX(o) + LastMax(o)[2]
                       /\ at(W'["srcXY"], o \o <<1>>) = AnchorY(o) + LastMax(o)[1]
                  ELSE /\ at(W'["dest"], o) = at(W["dest"], o)
                       /\ at(W'["srcXY"], o \o <<0>>) = at(W["srcXY"], o \o <<0>>)
                       /\ at(W'["srcXY"], o \o <<1>>) = at(W["srcXY"], o \o <<1>>)]_vars

\* the assertion stopped the kernel after it had written two windows
C15_Witness ==
  /\ IsPool("Max") /\ pc = "abort"
  /\ EmptyWindows # {} /\ FirstEmptyWindow = 3
  /\ at(W["dest"], PoolOrder[1]) # R(0)
  /\ at(W["dest"], PoolOrder[2]) # R(0)
  /\ at(W["dest"], PoolOrder[3]) = R(0)

---------------------------------------------------------------------------
(* The spatial kernels: which input elements they touch.                   *)

\* the input positions <<ox, oy>> the convolution kernels read (forward) or
\* read and update (backward): those their range test lets through
ConvTouched ==
  LET d == W["dest"].dims
  IN  {<<-I.pad + ax * I.stride + fx, -I.pad + ay * I.stride + fy>> :
         ax \in 0..(d[2] - 1), ay \in 0..(d[3] - 1),
         fx \in 0..(I.kernel - 1), fy \in 0..(I.kernel - 1)}
      \ {p \in (-4..8) \X (-4..8) : convSkip(p[1], p[2], d)}

\* the input positions the pooling kernels read or update
PoolTouched ==
  LET d == W["dest"].dims
  IN  {<<-I.pad + ax * I.stride + fx, -I.pad + ay * I.stride + fy>> :
         ax \in 0..(d[2] - 1), ay \in 0..(d[3] - 1),
         fx \in 0..(I.kernel - 1), fy \in 0..(I.kernel - 1)}
      \ {p \in (-4..8) \X (-4..8) : poolSkip(p[1], p[2], W["src"].dims)}

InsideInput(p) ==
  /\ 0 <= p[1] /\ p[1] < W["src"].dims[2]
  /\ 0 <= p[2] /\ p[2] < W["src"].dims[3]

\* the coordinates the MaxPool forward saved
SavedInsideInput ==
  \A o \in Coords(W["dest"].dims) :
    InsideInput(<<at(W["srcXY"], o \o <<0>>), at(W["srcXY"], o \o <<1>>)>>)

PoolAccessInBounds ==
  /\ (I.op = "pool" /\ pc \in {"fwd", "bwd", "abort"}) =>
       \A p \in PoolTouched : InsideInput(p)
  /\ (IsPool("Max") /\ Done) => SavedInsideInput

\* C16: with dest sized by the output formula, every src/inG element the
\* convolution forward and backward, MaxPool and AvgPool touch has spatial
\* coordinates inside the input extents, and every coordinate saved in SXY
\* is inside the input extents.
C16_SpatialKernelsInBounds ==
  /\ (I.op = "conv" /\ pc \in {"fwd", "bwd", "abort"}) =>
       (~oob /\ \A p \in ConvTouched : InsideInput(p))
  /\ PoolAccessInBounds

---------------------------------------------------------------------------
(* Arithmetic backward with one value as both operands.                    *)

\* C17: when LHS and RHS are the same value x, LHSG and RHSG are one buffer
\* and after the backward it holds the last write, whatever it held before:
\* grad(x)(i) = outG(i) for Add and grad(x)(i) = x(i) * outG(i) for Mul.
C17_ArithmeticBackwardAliased ==
  (I.op = "arith" /\ I.lhs = I.rhs /\ pc = "bwd") =>
    \A k \in 1..size(G["dest"]) :
      G[I.lhs].data[k] =
        IF I.kind = "Add" THEN G["dest"].data[k]
        ELSE RMul(W[I.lhs].data[k], G["dest"].data[k])

\* x = [2, 5] multiplied by itself, outG = [-2, 3], grad(x) = [99, 99] before:
\* grad(x) = [-4, 15] after
C17_Witness ==
  /\ I.op = "arith" /\ I.kind = "Mul" /\ I.lhs = I.rhs /\ pc = "bwd"
  /\ W[I.lhs].data = RSeq(<<2, 5>>)
  /\ G["dest"].data = RSeq(<<-2, 3>>)
  /\ hist[1][I.lhs].data = RSeq(<<99, 99>>)
  /\ G[I.lhs].data = RSeq(<<-4, 15>>)

---------------------------------------------------------------------------
(* Two accumulating consumers of one value.                                *)

\* the gradient of v after the backward of instruction r alone, from gradients g
AloneSrc(g, r) == bwdInst(View(g, r), View(W, r), I[r], R(0))["src"]

\* the gradient of v after the backward of r and then of s, from gradients g
InOrderSrc(g, r, s) ==
  AloneSrc(Merge(g, r, bwdInst(View(g, r), View(W, r), I[r], R(0))), s)

===========================================================================
